---- MODULE Spec2Model ----
(***************************************************************************)
(* Model of the discovery and L2-inference engine of networkmgmt:          *)
(* SnmpBridgeDiscovery (discover, build_l2_topology), the source merge of  *)
(* NetworkTopologyScanner.run_discovery, the traceroute fallback and       *)
(* _cleanup_trace.                                                         *)
(*                                                                         *)
(* Encoding.  An IP address is a number of 1..NumIPs+1; 0 is the empty     *)
(* string.  The MAC address of the host with IP i is the number i (the     *)
(* ARP readers of scanner.py yield lower-case MACs only); m + NumIPs is    *)
(* the same MAC written in upper case, 0 is the empty MAC.  A Python dict  *)
(* is a function whose DOMAIN is the set of its keys; a list is a          *)
(* sequence.  switch_name, port_name, hostname, vendor and services are    *)
(* carried by the code but read by none of the modelled decisions.         *)
(***************************************************************************)
EXTENDS Integers, Sequences, FiniteSets, TLC

\* ------------------------------------------------------------- bounds
NumIPs == 3
MaxPort == 2
MaxRows == 2
MaxSwitches == 2
MaxHops == 2
MaxRecords == 2
MaxPathHops == 3
MaxTargets == 3
MaxWorkers == 2
MaxNameLen == 2
MaxIfaces == 2
MaxStrLen == 2
MaxRaw == 3

IPs == 1..NumIPs
MACs == 1..NumIPs
Ports == 1..MaxPort

\* ------------------------------------------------------------ helpers
Range(s) == {s[i] : i \in DOMAIN s}

SeqsUpTo(S, n) == UNION {[1..k -> S] : k \in 0..n}

MaxOf(S) == CHOOSE x \in S : \A y \in S : y <= x

MinOf(S) == CHOOSE x \in S : \A y \in S : x <= y

\* dict.update(): the keys of b overwrite those of a.
DictUpdate(a, b) ==
  [k \in DOMAIN a \cup DOMAIN b |-> IF k \in DOMAIN b THEN b[k] ELSE a[k]]

EmptyDict == [k \in {} |-> 0]

\* str.lower() on a MAC address.
Lower(m) == IF m > NumIPs THEN m - NumIPs ELSE m

\* ------------------------------------------------------ state variables
VARIABLES
  pc,            \* position of run_discovery
  switches,      \* the (ip, community) list, as the list of the IPs
  qpc,           \* position of each _query_switch task
  qbp,           \* bridge_port_to_if of each running task
  qres,          \* what each task returned (its result dict)
  qfailed,       \* whether an exception was raised inside the task
  mac_table,     \* [set |-> mac_table is not None, tab |-> the dict]
  gateway_ip,    \* subnet_gateway_ip ("" = 0)
  hosts,         \* the list identify_hosts returned
  topology_tree, \* the subnet's topology_tree
  l2_entries,    \* the subnet's l2_entries
  has_l2_data,   \* has_l2_data
  lldp_entries,  \* what load_and_parse returned for the subnet
  manual_topology, \* the manual links, as (host_ip, sw_ip)
  trace_local,   \* the trace_local argument
  local_traces,  \* what trace_local_hosts returned
  traced,        \* whether trace_local_hosts was called for the subnet
  arg,           \* the argument of a function applied on its own
  ret,           \* [done |-> it has returned, val |-> what it returned]
  interfaces_to_scan, \* interfaces_to_scan, as the list of the interfaces
  iface,         \* position of the interface loop in interfaces_to_scan
  primary_iface, \* primary_iface (None = 0)
  primary_gateway, \* primary_gateway, as [subnet, ip] (None = NoGateway)
  subnets,       \* the SubnetScan list
  merged_tree,   \* merged_tree
  merged_l2,     \* merged_l2
  pool,          \* a ThreadPoolExecutor, its futures and its caller
  call,          \* the blocking external calls of one run
  ifc            \* one call of discover_local_interface

snmpVars == <<switches, qpc, qbp, qres, qfailed, mac_table>>

mergeVars == <<gateway_ip, hosts, topology_tree, l2_entries, has_l2_data,
               lldp_entries, manual_topology, trace_local, local_traces, traced>>

runVars == <<interfaces_to_scan, iface, primary_iface, primary_gateway, subnets,
             merged_tree, merged_l2>>

partVars == <<pool, call, ifc>>

unitVars == <<arg, ret, partVars>>

vars == <<pc, snmpVars, mergeVars, runVars, unitVars>>

\* --------------------------------------------- SnmpBridgeDiscovery
\* One FDB row as walked: the MAC of its index and the bridge port value.
FdbRow == [mac : MACs, port : 0..MaxPort]

FdbRows == SeqsUpTo(FdbRow, MaxRows)

\* dot1dBasePortIfIndex as walked: bridge port -> ifIndex, any part of it.
BasePortMaps == UNION {[D -> Ports] : D \in SUBSET Ports}

IfIndex(bp_if, bridge_port) ==
  IF bridge_port \in DOMAIN bp_if THEN bp_if[bridge_port] ELSE bridge_port

\* The Q-BRIDGE loop over the first n rows: port 0 is skipped and the first
\* occurrence of a MAC is kept.  The value is result: mac -> port_index.
RECURSIVE QBridgeResult(_, _, _)
QBridgeResult(rows, bp_if, n) ==
  IF n = 0 THEN EmptyDict
  ELSE LET prev == QBridgeResult(rows, bp_if, n - 1)
           row == rows[n]
       IN IF row.port = 0 \/ row.mac \in DOMAIN prev THEN prev
          ELSE DictUpdate(prev, [k \in {row.mac} |-> IfIndex(bp_if, row.port)])

\* The BRIDGE-MIB fallback: mac_to_bp keeps the last row of a MAC, then every
\* MAC with a port other than 0 is stored.
RECURSIVE MacToBp(_, _)
MacToBp(rows, n) ==
  IF n = 0 THEN EmptyDict
  ELSE DictUpdate(MacToBp(rows, n - 1), [k \in {rows[n].mac} |-> rows[n].port])

BridgeResult(rows, bp_if) ==
  LET mac_to_bp == MacToBp(rows, Len(rows))
      kept == {m \in DOMAIN mac_to_bp : mac_to_bp[m] # 0}
  IN [m \in kept |-> IfIndex(bp_if, mac_to_bp[m])]

Tasks == DOMAIN switches

\* engine.close_dispatcher() of the finally clause, then return result: an
\* exception of the finally clause leaves the task with that exception.
QueryReturn(i, result, failed, closeOk) ==
  /\ qpc' = [qpc EXCEPT ![i] = IF closeOk THEN "returned" ELSE "raised"]
  /\ qres' = [qres EXCEPT ![i] = IF closeOk THEN result ELSE EmptyDict]
  /\ qfailed' = [qfailed EXCEPT ![i] = failed \/ ~closeOk]
  /\ qbp' = [qbp EXCEPT ![i] = EmptyDict]

\* A step of the try block: on an exception the except clause logs and the
\* task returns the result collected so far (nothing, before the row loop).
QueryStep(i, from, to, ok) ==
  /\ pc = "discover"
  /\ qpc[i] = from
  /\ IF ok
       THEN /\ qpc' = [qpc EXCEPT ![i] = to]
            /\ UNCHANGED <<qres, qfailed, qbp>>
       ELSE \E closeOk \in BOOLEAN : QueryReturn(i, EmptyDict, TRUE, closeOk)
  /\ UNCHANGED <<unitVars, runVars, pc, switches, mac_table, mergeVars>>

\* SnmpEngine(), CommunityData() and UdpTransportTarget.create(), before the
\* try block: an exception leaves the task at once.
QueryCreate(i) ==
  /\ pc = "discover"
  /\ qpc[i] = "create"
  /\ \E ok \in BOOLEAN :
       /\ qpc' = [qpc EXCEPT ![i] = IF ok THEN "scalars" ELSE "raised"]
       /\ qfailed' = [qfailed EXCEPT ![i] = ~ok]
  /\ UNCHANGED <<unitVars, runVars, pc, switches, qbp, qres, mac_table, mergeVars>>

QueryScalars(i) == \E ok \in BOOLEAN : QueryStep(i, "scalars", "ifdescr", ok)

QueryIfDescr(i) == \E ok \in BOOLEAN : QueryStep(i, "ifdescr", "baseport", ok)

QueryBasePort(i) ==
  /\ pc = "discover"
  /\ qpc[i] = "baseport"
  /\ \E ok \in BOOLEAN :
       IF ok
         THEN \E m \in BasePortMaps :
                /\ qpc' = [qpc EXCEPT ![i] = "qfdb"]
                /\ qbp' = [qbp EXCEPT ![i] = m]
                /\ UNCHANGED <<qres, qfailed>>
         ELSE \E closeOk \in BOOLEAN : QueryReturn(i, EmptyDict, TRUE, closeOk)
  /\ UNCHANGED <<unitVars, runVars, pc, switches, mac_table, mergeVars>>

\* The dot1qTpFdbPort walk and, when it has rows, the loop over them.  The
\* loop stops at row failAt when converting that row raises (failAt = 0: no
\* row raises); the rows before it are already in result.
QueryQFdb(i) ==
  /\ pc = "discover"
  /\ qpc[i] = "qfdb"
  /\ \E rows \in FdbRows, closeOk \in BOOLEAN :
       IF rows = <<>>
         THEN \E ok \in BOOLEAN :
                IF ok
                  THEN /\ qpc' = [qpc EXCEPT ![i] = "fdbaddr"]
                       /\ UNCHANGED <<qres, qfailed, qbp>>
                  ELSE QueryReturn(i, EmptyDict, TRUE, closeOk)
         ELSE \E failAt \in 0..Len(rows) :
                QueryReturn(i,
                            QBridgeResult(rows, qbp[i],
                                          IF failAt = 0 THEN Len(rows) ELSE failAt - 1),
                            failAt # 0, closeOk)
  /\ UNCHANGED <<unitVars, runVars, pc, switches, mac_table, mergeVars>>

QueryFdbAddr(i) == \E ok \in BOOLEAN : QueryStep(i, "fdbaddr", "fdbport", ok)

\* The dot1dTpFdbPort walk and the two loops of the fallback: result is
\* filled by the second loop only, so a row that raises in the first leaves
\* it empty.
QueryFdbPort(i) ==
  /\ pc = "discover"
  /\ qpc[i] = "fdbport"
  /\ \E rows \in FdbRows, ok \in BOOLEAN, closeOk \in BOOLEAN :
       QueryReturn(i, IF ok THEN BridgeResult(rows, qbp[i]) ELSE EmptyDict,
                   ~ok, closeOk)
  /\ UNCHANGED <<unitVars, runVars, pc, switches, mac_table, mergeVars>>

\* The merge loop of _discover_all over the first n results: an exception is
\* skipped, every mapping of a returned dict is appended under its MAC.
RECURSIVE Merged(_, _, _, _)
Merged(sw, state, res, n) ==
  IF n = 0 THEN EmptyDict
  ELSE LET prev == Merged(sw, state, res, n - 1)
       IN IF state[n] = "raised" THEN prev
          ELSE DictUpdate(prev,
                 [m \in DOMAIN res[n] |->
                    (IF m \in DOMAIN prev THEN prev[m] ELSE <<>>)
                      \o <<[switch_ip |-> sw[n], port_index |-> res[n][m]]>>])

\* asyncio.gather(..., return_exceptions=True) has every task's outcome.
Gather ==
  /\ pc = "discover"
  /\ \A i \in Tasks : qpc[i] \in {"returned", "raised"}
  /\ mac_table' = [set |-> switches # <<>>,
                   tab |-> Merged(switches, qpc, qres, Len(switches))]
  /\ pc' = "scan"
  /\ UNCHANGED <<unitVars, runVars, switches, qpc, qbp, qres, qfailed, mergeVars>>

\* ------------------------------------------------- build_l2_topology
SwitchMacs(hs, switch_ips) ==
  LET idx == {i \in DOMAIN hs : hs[i].ip \in switch_ips /\ hs[i].mac # 0}
  IN [ip \in {hs[i].ip : i \in idx} |->
        Lower(hs[MaxOf({i \in idx : hs[i].ip = ip})].mac)]

UplinkPorts(hs, tab, switch_ips) ==
  LET sm == SwitchMacs(hs, switch_ips)
  IN UNION {{<<tab[sm[sw]][j].switch_ip, tab[sm[sw]][j].port_index>> :
               j \in {j \in DOMAIN tab[sm[sw]] : tab[sm[sw]][j].switch_ip # sw}} :
            sw \in {sw \in DOMAIN sm : sm[sw] \in DOMAIN tab}}

IsUplink(m, uplink_ports) == <<m.switch_ip, m.port_index>> \in uplink_ports

\* Best without the preference: the first mapping, uplink or not.
BestIsFirst(mappings, uplink_ports) == mappings[1]

\* The first mapping that is not on an uplink port, else the first mapping.
Best(mappings, uplink_ports) ==
  LET direct == {j \in DOMAIN mappings : ~IsUplink(mappings[j], uplink_ports)}
  IN IF direct # {} THEN mappings[MinOf(direct)] ELSE mappings[1]

Entry(host_ip, m, source) ==
  [host_ip |-> host_ip, switch_ip |-> m.switch_ip, port_index |-> m.port_index,
   source |-> source]

\* The loop over the hosts, up to host n.
RECURSIVE HostEntries(_, _, _, _)
HostEntries(hs, tab, uplink_ports, n) ==
  IF n = 0 THEN <<>>
  ELSE LET prev == HostEntries(hs, tab, uplink_ports, n - 1)
           h == hs[n]
       IN IF h.mac = 0 \/ h.is_gateway \/ Lower(h.mac) \notin DOMAIN tab THEN prev
          ELSE Append(prev, Entry(h.ip, Best(tab[Lower(h.mac)], uplink_ports), "snmp"))

\* The switch-to-switch loop for one switch: every mapping of its MAC on
\* another switch, in the order of the list.
RECURSIVE SwitchEdges(_, _, _)
SwitchEdges(sw, mappings, n) ==
  IF n = 0 THEN <<>>
  ELSE LET prev == SwitchEdges(sw, mappings, n - 1)
       IN IF mappings[n].switch_ip # sw
            THEN Append(prev, Entry(sw, mappings[n], "snmp"))
            ELSE prev

\* switch_macs.items() follows the order in which the hosts inserted a key.
RECURSIVE SwitchEntries(_, _, _, _)
SwitchEntries(hs, tab, sm, n) ==
  IF n = 0 THEN <<>>
  ELSE LET prev == SwitchEntries(hs, tab, sm, n - 1)
           ip == hs[n].ip
           first == ip \in DOMAIN sm
                    /\ ~\E j \in 1..(n - 1) : hs[j].ip = ip /\ hs[j].ip \in DOMAIN sm
       IN IF first /\ sm[ip] \in DOMAIN tab
            THEN prev \o SwitchEdges(ip, tab[sm[ip]], Len(tab[sm[ip]]))
            ELSE prev

\* topology_tree is assigned together with every appended entry: the last
\* entry of a host IP decides its parent.
TreeOf(es) ==
  [k \in {es[i].host_ip : i \in DOMAIN es} |->
     es[MaxOf({i \in DOMAIN es : es[i].host_ip = k})].switch_ip]

BuildL2Topology(hs, tab, switch_ips) ==
  LET up == UplinkPorts(hs, tab, switch_ips)
      es == HostEntries(hs, tab, up, Len(hs))
              \o SwitchEntries(hs, tab, SwitchMacs(hs, switch_ips), Len(hs))
  IN [l2 |-> es, tree |-> TreeOf(es)]

\* ---------------------------------------------------- identify_hosts
\* identify_hosts without the sort.
IdentifyHostsUnsorted(raw, gw_ip, local_ip) ==
  LET keep == SelectSeq(raw, LAMBDA r : r.ip # local_ip)
      found == [i \in DOMAIN keep |->
                  [ip |-> keep[i].ip, mac |-> keep[i].mac,
                   is_gateway |-> keep[i].ip = gw_ip, is_infrastructure |-> FALSE]]
  IN IF gw_ip # 0 /\ ~\E i \in DOMAIN found : found[i].ip = gw_ip
       THEN <<[ip |-> gw_ip, mac |-> 0, is_gateway |-> TRUE,
               is_infrastructure |-> FALSE]>> \o found
       ELSE found

Host(ip, mac, gw) ==
  [ip |-> ip, mac |-> mac, is_gateway |-> gw, is_infrastructure |-> FALSE]

\* The sort key (not is_gateway, IPv4Address(ip)).
KeyLeq(a, b) ==
  \/ a.is_gateway /\ ~b.is_gateway
  \/ a.is_gateway = b.is_gateway /\ a.ip <= b.ip

\* list.sort() is stable: an element goes behind every element that is not
\* greater than it.
RECURSIVE SortHosts(_)
SortHosts(hs) ==
  IF hs = <<>> THEN <<>>
  ELSE LET sorted == SortHosts(SubSeq(hs, 1, Len(hs) - 1))
           h == hs[Len(hs)]
           k == Cardinality({i \in DOMAIN sorted : KeyLeq(sorted[i], h)})
       IN SubSeq(sorted, 1, k) \o <<h>> \o SubSeq(sorted, k + 1, Len(sorted))

RECURSIVE RawHosts(_, _, _)
RawHosts(raw, gw_ip, local_ip) ==
  IF raw = <<>> THEN <<>>
  ELSE LET prev == RawHosts(SubSeq(raw, 1, Len(raw) - 1), gw_ip, local_ip)
           r == raw[Len(raw)]
       IN IF r.ip = local_ip THEN prev
          ELSE Append(prev, Host(r.ip, r.mac, r.ip = gw_ip))

IdentifyHosts(raw, gw_ip, local_ip) ==
  LET found == RawHosts(raw, gw_ip, local_ip)
      all == IF gw_ip # 0 /\ ~\E i \in DOMAIN found : found[i].ip = gw_ip
               THEN <<Host(gw_ip, 0, TRUE)>> \o found
               ELSE found
  IN SortHosts(all)

HostIPs(hs) == {hs[i].ip : i \in DOMAIN hs}

\* for host in hosts: if <ip in S>: host.is_infrastructure = True
MarkInfrastructure(hs, S) ==
  [i \in DOMAIN hs |->
     IF hs[i].ip \in S THEN [hs[i] EXCEPT !.is_infrastructure = TRUE] ELSE hs[i]]

\* gateway = next((h for h in hosts if h.is_gateway), None), as its IP.
GatewayOf(hs) ==
  LET gw == {i \in DOMAIN hs : hs[i].is_gateway}
  IN IF gw = {} THEN 0 ELSE hs[MinOf(gw)].ip

\* The address of the scanning interface: never one of the scanned hosts.
LocalIP == NumIPs + 1

\* ------------------------------------------------------ LldpDiscovery
\* One neighbour of an LLDP file: the chassis MAC, 0 when the chassis has
\* none or matches no host (a chassis matched by its name resolves to a host
\* IP the same way).
LldpSwitchIp(hs, chassis_mac) ==
  LET known == {i \in DOMAIN hs : hs[i].mac # 0 /\ Lower(hs[i].mac) = Lower(chassis_mac)}
  IN IF chassis_mac # 0 /\ known # {} THEN hs[MaxOf(known)].ip ELSE 0

\* _parse_lldp_json for the file of host_ip: one entry per neighbour.
ParseLldp(hs, host_ip, neighbours) ==
  [j \in DOMAIN neighbours |->
     [host_ip |-> host_ip, switch_ip |-> LldpSwitchIp(hs, neighbours[j]),
      port_index |-> 0, source |-> "lldp"]]

\* load_and_parse: the files in the order of their names; a file whose name
\* is not the IP of a host is skipped.
RECURSIVE LoadAndParse(_, _, _)
LoadAndParse(hs, files, n) ==
  IF n = 0 THEN <<>>
  ELSE LET prev == LoadAndParse(hs, files, n - 1)
       IN IF n \in DOMAIN files /\ n \in HostIPs(hs)
            THEN prev \o ParseLldp(hs, n, files[n])
            ELSE prev

RECURSIVE WithSwitch(_)
WithSwitch(es) ==
  IF es = <<>> THEN <<>>
  ELSE LET prev == WithSwitch(SubSeq(es, 1, Len(es) - 1))
       IN IF es[Len(es)].switch_ip # 0 THEN Append(prev, es[Len(es)]) ELSE prev

\* build_l2_from_lldp without the test for a switch IP.
BuildL2FromLldpAll(es) == [l2 |-> es, tree |-> TreeOf(es)]

\* build_l2_from_lldp: all the entries, and the tree of those with a switch IP.
BuildL2FromLldp(es) == [l2 |-> es, tree |-> TreeOf(WithSwitch(es))]

\* list({e.host_ip: e for e in old + new}.values()): a key keeps the place
\* of its first entry and the value of its last.
RECURSIVE ByHost(_)
ByHost(es) ==
  IF es = <<>> THEN <<>>
  ELSE LET prev == ByHost(SubSeq(es, 1, Len(es) - 1))
           e == es[Len(es)]
       IN IF \E i \in DOMAIN prev : prev[i].host_ip = e.host_ip
            THEN [i \in DOMAIN prev |-> IF prev[i].host_ip = e.host_ip THEN e ELSE prev[i]]
            ELSE Append(prev, e)

\* ------------------------------------------------------ _cleanup_trace
Hop(n, ip, hostname, timeout) ==
  [hop_number |-> n, ip |-> ip, hostname |-> hostname, is_timeout |-> timeout]

IsReal(h) == ~h.is_timeout /\ h.ip # 0

RECURSIVE RealHops(_)
RealHops(hops) ==
  IF hops = <<>> THEN <<>>
  ELSE LET prev == RealHops(SubSeq(hops, 1, Len(hops) - 1))
       IN IF IsReal(hops[Len(hops)]) THEN Append(prev, hops[Len(hops)]) ELSE prev

\* _cleanup_trace that keeps every hop before the last real hop, timeouts
\* included.
CleanupTraceKeepsGaps(path) ==
  IF path.completed \/ RealHops(path.hops) = <<>> THEN path
  ELSE LET last_real == RealHops(path.hops)[Len(RealHops(path.hops))].hop_number
           kept == SubSeq(path.hops, 1, last_real)
       IN [path EXCEPT !.hops =
             IF Len(path.hops) > last_real
               THEN Append(kept, Hop(last_real + 1, path.target, "UNREACHABLE", TRUE))
               ELSE kept]

\* _cleanup_trace without the early return for a completed path.
CleanupTraceAlways(path) ==
  LET real_hops == RealHops(path.hops)
  IN IF real_hops = <<>>
       THEN [path EXCEPT !.hops = <<Hop(1, path.target, "UNREACHABLE", TRUE)>>]
       ELSE [path EXCEPT !.hops = real_hops]

CleanupTrace(path) ==
  IF path.completed THEN path
  ELSE LET real_hops == RealHops(path.hops)
       IN IF real_hops = <<>>
            THEN [path EXCEPT !.hops = <<Hop(1, path.target, "UNREACHABLE", TRUE)>>]
            ELSE LET last_real == real_hops[Len(real_hops)].hop_number
                     had_trailing_timeouts ==
                       \E i \in DOMAIN path.hops :
                         path.hops[i].is_timeout /\ path.hops[i].hop_number > last_real
                 IN [path EXCEPT !.hops =
                       IF had_trailing_timeouts
                         THEN Append(real_hops,
                                     Hop(last_real + 1, path.target, "UNREACHABLE", TRUE))
                         ELSE real_hops]

\* What the parsers make of the tool's output xs, one number per hop line:
\* 0 for a line without reply, else the IP that answered.  completed is set
\* when a hop's IP is the target.
ParseTrace(target, xs) ==
  [target |-> target,
   hops |-> [i \in DOMAIN xs |->
               IF xs[i] = 0 THEN Hop(i, 0, "", TRUE) ELSE Hop(i, xs[i], "", FALSE)],
   completed |-> \E i \in DOMAIN xs : xs[i] = target]

\* _run_traceroute: without a trace tool or without output the path has no
\* hops; else the parsed path goes through _cleanup_trace.
RunTraceroute(target, xs, hasOutput) ==
  IF hasOutput THEN CleanupTrace(ParseTrace(target, xs))
  ELSE [target |-> target, hops |-> <<>>, completed |-> FALSE]

\* ------------------------------------------------ build_topology_tree
\* The parent taken from the last real hop instead of the one before it.
TraceParentLast(path, gw_ip) ==
  LET real_hops == RealHops(path.hops)
  IN IF Len(real_hops) <= 1 THEN gw_ip ELSE real_hops[Len(real_hops)].ip

TraceParent(path, gw_ip) ==
  LET real_hops == RealHops(path.hops)
  IN IF Len(real_hops) <= 1 THEN gw_ip ELSE real_hops[Len(real_hops) - 1].ip

\* The hops before the last real hop, the gateway among them.
TraceInfrastructureWithGateway(hs, path, gw_ip) ==
  LET real_hops == RealHops(path.hops)
  IN {real_hops[i].ip : i \in 1..(Len(real_hops) - 1)} \cap HostIPs(hs)

\* Only the hops strictly between the first and the last real hop.
TraceInfrastructureInner(hs, path, gw_ip) ==
  LET real_hops == RealHops(path.hops)
  IN {real_hops[i].ip : i \in 2..(Len(real_hops) - 1)} \cap (HostIPs(hs) \ {gw_ip})

TraceInfrastructure(hs, path, gw_ip) ==
  LET real_hops == RealHops(path.hops)
  IN IF Len(real_hops) <= 1 THEN {}
     ELSE {real_hops[i].ip : i \in 1..(Len(real_hops) - 1)}
            \cap (HostIPs(hs) \ {gw_ip})

BuildTopologyTree(hs, paths, gw_ip) ==
  [tree |-> [t \in {paths[i].target : i \in DOMAIN paths} |->
               TraceParent(paths[MaxOf({i \in DOMAIN paths : paths[i].target = t})],
                           gw_ip)],
   hosts |-> MarkInfrastructure(hs,
               UNION {TraceInfrastructure(hs, paths[i], gw_ip) : i \in DOMAIN paths})]

\* trace_local_hosts: the targets, in the order of the hosts.
RECURSIVE TraceTargets(_)
TraceTargets(hs) ==
  IF hs = <<>> THEN <<>>
  ELSE LET prev == TraceTargets(SubSeq(hs, 1, Len(hs) - 1))
           h == hs[Len(hs)]
       IN IF ~h.is_gateway /\ h.ip # LocalIP THEN Append(prev, h.ip) ELSE prev

\* ------------------------------------------------------ run_discovery
\* The ARP replies of a scan in which the hosts of S answered.
RECURSIVE RawOf(_)
RawOf(S) ==
  IF S = {} THEN <<>>
  ELSE RawOf(S \ {MaxOf(S)}) \o <<[ip |-> MaxOf(S), mac |-> MaxOf(S)]>>

\* Scans in which every address answered, or all but the highest.
RawScans == {RawOf(IPs), RawOf(IPs \ {NumIPs})}

\* primary_gateway is None.
NoGateway == [subnet |-> 0, ip |-> 0]

\* discover_local_interface, scan_local_subnet and identify_hosts of one
\* interface that has an address, and the start of its merge.
ScanSubnet ==
  /\ pc = "scan"
  /\ \E gw \in 0..NumIPs, raw \in RawScans :
       /\ gateway_ip' = gw
       /\ hosts' = IdentifyHosts(raw, gw, LocalIP)
  /\ primary_iface' = IF primary_iface = 0 THEN interfaces_to_scan[iface]
                                            ELSE primary_iface
  /\ primary_gateway' =
       IF primary_gateway = NoGateway /\ GatewayOf(hosts') # 0
         THEN [subnet |-> interfaces_to_scan[iface], ip |-> GatewayOf(hosts')]
         ELSE primary_gateway
  /\ topology_tree' = EmptyDict
  /\ l2_entries' = <<>>
  /\ has_l2_data' = FALSE
  /\ local_traces' = <<>>
  /\ traced' = FALSE
  /\ pc' = "snmp"
  /\ UNCHANGED <<unitVars, interfaces_to_scan, iface, subnets, merged_tree, merged_l2,
                 snmpVars, lldp_entries, manual_topology, trace_local>>

\* An interface without an IPv4 address is skipped; after the last interface
\* the assertion on primary_iface.
SkipInterface ==
  /\ pc = "scan"
  /\ iface' = iface + 1
  /\ pc' = IF iface < Len(interfaces_to_scan) THEN "scan"
           ELSE IF primary_iface = 0 THEN "assertion_error" ELSE "done"
  /\ UNCHANGED <<unitVars, interfaces_to_scan, primary_iface, primary_gateway, subnets,
                 merged_tree, merged_l2, snmpVars, mergeVars>>

\* Source 1: SNMP.
MergeSnmp ==
  /\ pc = "snmp"
  /\ IF mac_table.set
       THEN LET r == BuildL2Topology(hosts, mac_table.tab, Range(switches))
            IN /\ l2_entries' = r.l2
               /\ topology_tree' = r.tree
               /\ hosts' = MarkInfrastructure(hosts, Range(switches))
               /\ has_l2_data' = (r.l2 # <<>>)
       ELSE UNCHANGED <<l2_entries, topology_tree, hosts, has_l2_data>>
  /\ pc' = "lldp"
  /\ UNCHANGED <<unitVars, runVars, snmpVars, gateway_ip, lldp_entries, manual_topology, trace_local,
                 local_traces, traced>>

\* The LLDP directory: not given, or the neighbours (chassis MACs) in the
\* file of each address, MaxRecords neighbours in all.
NoLldpDir == [set |-> FALSE, files |-> [ip \in IPs |-> <<>>]]

\* The contents of the files of the addresses 1..k, n neighbours in all at
\* most.
RECURSIVE LldpFiles(_, _)
LldpFiles(k, n) ==
  IF k = 0 THEN {<<>>}
  ELSE UNION {{Append(f, ns) : f \in LldpFiles(k - 1, n - Len(ns))} :
                ns \in SeqsUpTo(0..NumIPs, n)}

LldpDirs ==
  {NoLldpDir} \cup {[set |-> TRUE, files |-> f] : f \in LldpFiles(NumIPs, MaxRecords)}

InfrastructureOfLldp(es) == {es[i].switch_ip : i \in DOMAIN es} \ {0}

\* Source 2: LLDP, read from the directory dir.
MergeLldpFrom(dir) ==
  /\ pc = "lldp"
  /\ LET es == IF dir.set THEN LoadAndParse(hosts, dir.files, NumIPs) ELSE <<>>
         r == BuildL2FromLldp(es)
     IN /\ lldp_entries' = es
        /\ IF es # <<>>
             THEN /\ l2_entries' = ByHost(l2_entries \o r.l2)
                  /\ topology_tree' = DictUpdate(topology_tree, r.tree)
                  /\ hosts' = MarkInfrastructure(hosts, InfrastructureOfLldp(es))
                  /\ has_l2_data' = TRUE
             ELSE UNCHANGED <<l2_entries, topology_tree, hosts, has_l2_data>>
  /\ pc' = "manual"
  /\ UNCHANGED <<unitVars, runVars, snmpVars, gateway_ip, manual_topology, trace_local, local_traces,
                 traced>>

MergeLldp == \E dir \in LldpDirs : MergeLldpFrom(dir)

\* The manual links: with the LLDP entries, MaxRecords records in all.
ManualLinks(n) == SeqsUpTo([host_ip : IPs, sw_ip : IPs], n)

\* The loop over manual_topology without the test for the subnet.
ManualL2All(hs, links) ==
  [i \in DOMAIN links |->
     [host_ip |-> links[i].host_ip, switch_ip |-> links[i].sw_ip,
      port_index |-> 0, source |-> "manual"]]

\* The loop over manual_topology: the links whose host is on the subnet.
RECURSIVE ManualL2(_, _)
ManualL2(hs, links) ==
  IF links = <<>> THEN <<>>
  ELSE LET prev == ManualL2(hs, SubSeq(links, 1, Len(links) - 1))
           l == links[Len(links)]
       IN IF l.host_ip \notin HostIPs(hs) THEN prev
          ELSE Append(prev, [host_ip |-> l.host_ip, switch_ip |-> l.sw_ip,
                             port_index |-> 0, source |-> "manual"])

\* Source 3: the manual links.
MergeManualOf(links) ==
  /\ pc = "manual"
  /\ manual_topology' = links
  /\ LET manual_l2 == ManualL2(hosts, links)
     IN /\ hosts' = MarkInfrastructure(hosts,
                      {manual_l2[i].switch_ip : i \in DOMAIN manual_l2})
        /\ IF manual_l2 # <<>>
             THEN /\ l2_entries' = ByHost(l2_entries \o manual_l2)
                  /\ topology_tree' = DictUpdate(topology_tree, TreeOf(manual_l2))
                  /\ has_l2_data' = TRUE
             ELSE UNCHANGED <<l2_entries, topology_tree, has_l2_data>>
  /\ pc' = "default"
  /\ UNCHANGED <<unitVars, runVars, snmpVars, gateway_ip, lldp_entries, trace_local, local_traces,
                 traced>>

MergeManual ==
  \E links \in ManualLinks(MaxRecords - Len(lldp_entries)) : MergeManualOf(links)

\* Unmapped that also leaves out the hosts marked as infrastructure.
UnmappedLeaves(hs, tree) ==
  {hs[i].ip : i \in {i \in DOMAIN hs :
                       ~hs[i].is_gateway /\ ~hs[i].is_infrastructure
                         /\ hs[i].ip \notin DOMAIN tree /\ hs[i].ip # LocalIP}}

\* Hosts not mapped to any switch: the parent is the gateway.
Unmapped(hs, tree) ==
  {hs[i].ip : i \in {i \in DOMAIN hs :
                       ~hs[i].is_gateway /\ hs[i].ip \notin DOMAIN tree
                         /\ hs[i].ip # LocalIP}}

DefaultToGateway ==
  /\ pc = "default"
  /\ IF has_l2_data /\ GatewayOf(hosts) # 0
       THEN topology_tree' =
              DictUpdate(topology_tree,
                         [ip \in Unmapped(hosts, topology_tree) |-> GatewayOf(hosts)])
       ELSE UNCHANGED topology_tree
  /\ pc' = "trace"
  /\ UNCHANGED <<unitVars, runVars, snmpVars, gateway_ip, hosts, l2_entries, has_l2_data, lldp_entries,
                 manual_topology, trace_local, local_traces, traced>>

\* What the trace tool printed for the targets 1..k: for each nothing, or hop
\* lines, n lines in all at most.
RECURSIVE TraceOutputsUpTo(_, _)
TraceOutputsUpTo(k, n) ==
  IF k = 0 THEN {<<>>}
  ELSE UNION {{Append(o, [out |-> TRUE, xs |-> xs]) :
                 o \in TraceOutputsUpTo(k - 1, n - Len(xs))} :
                xs \in SeqsUpTo(0..NumIPs, n)}
         \cup {Append(o, [out |-> FALSE, xs |-> <<>>]) :
                 o \in TraceOutputsUpTo(k - 1, n)}

TraceOutputs(k) == TraceOutputsUpTo(k, MaxHops)

\* The fallback's condition without the has_l2_data test.
RunsFallbackAnyway(l2data, tl, gw) == tl /\ gw # 0

\* Whether the fallback runs.
RunsFallback(l2data, tl, gw) == ~l2data /\ tl /\ gw # 0

\* Source 4: the traceroute fallback, with trace_local = tl.
TracerouteFallbackOf(tl) ==
  /\ pc = "trace"
  /\ trace_local' = tl
  /\ IF RunsFallback(has_l2_data, tl, GatewayOf(hosts))
       THEN LET targets == TraceTargets(hosts)
            IN \E outs \in TraceOutputs(Len(targets)) :
                 LET paths == [i \in DOMAIN targets |->
                                 RunTraceroute(targets[i], outs[i].xs, outs[i].out)]
                     r == BuildTopologyTree(hosts, paths, GatewayOf(hosts))
                 IN /\ local_traces' = paths
                    /\ topology_tree' = r.tree
                    /\ hosts' = r.hosts
                    /\ traced' = TRUE
       ELSE UNCHANGED <<local_traces, topology_tree, hosts, traced>>
  /\ pc' = "append"
  /\ UNCHANGED <<unitVars, runVars, snmpVars, gateway_ip, l2_entries, has_l2_data, lldp_entries,
                 manual_topology>>

TracerouteFallback == \E tl \in BOOLEAN : TracerouteFallbackOf(tl)

\* subnets.append(SubnetScan(...)) and the merge into the global result;
\* after the last interface, the return of the NetworkTopology.
AppendSubnet ==
  /\ pc = "append"
  /\ subnets' = Append(subnets,
                       [interface |-> interfaces_to_scan[iface],
                        gateway |-> GatewayOf(hosts),
                        hosts |-> hosts,
                        topology_tree |-> topology_tree,
                        l2_topology |-> l2_entries])
  /\ merged_tree' = DictUpdate(merged_tree, topology_tree)
  /\ merged_l2' = merged_l2 \o l2_entries
  /\ iface' = iface + 1
  /\ pc' = IF iface < Len(interfaces_to_scan) THEN "scan" ELSE "done"
  /\ UNCHANGED <<unitVars, interfaces_to_scan, primary_iface, primary_gateway,
                 snmpVars, mergeVars>>

\* The accumulators of run_discovery before the loop over n interfaces.
RunInitVars(n) ==
  /\ interfaces_to_scan = [i \in 1..n |-> i]
  /\ iface = 1
  /\ primary_iface = 0
  /\ primary_gateway = NoGateway
  /\ subnets = <<>>
  /\ merged_tree = EmptyDict
  /\ merged_l2 = <<>>

\* No pool, no external call and no discover_local_interface on its own.
IdlePartVars ==
  /\ pool = <<>>
  /\ call = <<>>
  /\ ifc = <<>>

MergeInitVars ==
  /\ RunInitVars(1)
  /\ IdlePartVars
  /\ arg = <<>>
  /\ ret = [done |-> FALSE, val |-> <<>>]
  /\ gateway_ip = 0
  /\ hosts = <<>>
  /\ topology_tree = EmptyDict
  /\ l2_entries = <<>>
  /\ has_l2_data = FALSE
  /\ lldp_entries = <<>>
  /\ manual_topology = <<>>
  /\ trace_local = FALSE
  /\ local_traces = <<>>
  /\ traced = FALSE

\* ------------------------------------------------ specification Spec:
\* run_discovery for one subnet, from the scan on, with the MAC table of one
\* queried switch (or without SNMP).
OneSwitchTables ==
  {[sw |-> <<>>, set |-> FALSE, tab |-> EmptyDict]} \cup
  {[sw |-> <<s>>, set |-> TRUE,
    tab |-> [m \in L |-> <<[switch_ip |-> s, port_index |-> 1]>>]] :
     s \in IPs, L \in {L \in SUBSET MACs : Cardinality(L) <= 1}}

Init ==
  /\ pc = "scan"
  /\ \E t \in OneSwitchTables :
       /\ switches = t.sw
       /\ mac_table = [set |-> t.set, tab |-> t.tab]
  /\ qpc = [i \in DOMAIN switches |-> "returned"]
  /\ qbp = [i \in DOMAIN switches |-> EmptyDict]
  /\ qres = [i \in DOMAIN switches |-> EmptyDict]
  /\ qfailed = [i \in DOMAIN switches |-> FALSE]
  /\ MergeInitVars

Next ==
  \/ ScanSubnet
  \/ MergeSnmp
  \/ MergeLldp
  \/ MergeManual
  \/ DefaultToGateway
  \/ TracerouteFallback
  \/ AppendSubnet

Spec == Init /\ [][Next]_vars

\* -------------------------------------------- specification SpecSnmp:
\* discover() over the switches 1..k, then run_discovery for one subnet
\* with SNMP as the only source configured.
SwitchLists == {[i \in 1..k |-> i] : k \in 1..MaxSwitches}

InitSnmp ==
  /\ pc = "discover"
  /\ switches \in SwitchLists
  /\ qpc = [i \in DOMAIN switches |-> "create"]
  /\ qbp = [i \in DOMAIN switches |-> EmptyDict]
  /\ qres = [i \in DOMAIN switches |-> EmptyDict]
  /\ qfailed = [i \in DOMAIN switches |-> FALSE]
  /\ mac_table = [set |-> FALSE, tab |-> EmptyDict]
  /\ MergeInitVars

NextSnmp ==
  \/ \E i \in Tasks : QueryCreate(i)
  \/ \E i \in Tasks : QueryScalars(i)
  \/ \E i \in Tasks : QueryIfDescr(i)
  \/ \E i \in Tasks : QueryBasePort(i)
  \/ \E i \in Tasks : QueryQFdb(i)
  \/ \E i \in Tasks : QueryFdbAddr(i)
  \/ \E i \in Tasks : QueryFdbPort(i)
  \/ Gather
  \/ ScanSubnet
  \/ MergeSnmp
  \/ MergeLldpFrom(NoLldpDir)
  \/ \E links \in ManualLinks(1) : MergeManualOf(links)
  \/ DefaultToGateway
  \/ TracerouteFallbackOf(FALSE)
  \/ AppendSubnet

SpecSnmp == InitSnmp /\ [][NextSnmp]_vars

\* ------------------------------------------- specification SpecTrace:
\* _cleanup_trace applied to a TraceroutePath of up to MaxPathHops hops, hop
\* i with hop_number i.
TraceHops ==
  UNION {{[i \in 1..n |-> Hop(i, f[i].ip, "", f[i].is_timeout)] :
            f \in [1..n -> [ip : 0..NumIPs, is_timeout : BOOLEAN]]} :
         n \in 0..MaxPathHops}

TracePaths == [target : IPs, hops : TraceHops, completed : BOOLEAN]

InitTrace ==
  /\ pc = "cleanup_trace"
  /\ RunInitVars(1)
  /\ IdlePartVars
  /\ arg \in TracePaths
  /\ ret = [done |-> FALSE, val |-> <<>>]
  /\ switches = <<>>
  /\ qpc = <<>>
  /\ qbp = <<>>
  /\ qres = <<>>
  /\ qfailed = <<>>
  /\ mac_table = [set |-> FALSE, tab |-> EmptyDict]
  /\ gateway_ip = 0
  /\ hosts = <<>>
  /\ topology_tree = EmptyDict
  /\ l2_entries = <<>>
  /\ has_l2_data = FALSE
  /\ lldp_entries = <<>>
  /\ manual_topology = <<>>
  /\ trace_local = FALSE
  /\ local_traces = <<>>
  /\ traced = FALSE

CallCleanupTrace ==
  /\ pc = "cleanup_trace"
  /\ ret' = [done |-> TRUE, val |-> CleanupTrace(arg)]
  /\ pc' = "returned"
  /\ UNCHANGED <<arg, partVars, runVars, snmpVars, mergeVars>>

NextTrace == CallCleanupTrace

SpecTrace == InitTrace /\ [][NextTrace]_vars

\* -------------------------------------------- specification SpecTree:
\* trace_local_hosts and build_topology_tree for the hosts of one subnet
\* with a gateway, some of them already marked as infrastructure.
IdleSnmpVars ==
  /\ switches = <<>>
  /\ qpc = <<>>
  /\ qbp = <<>>
  /\ qres = <<>>
  /\ qfailed = <<>>
  /\ mac_table = [set |-> FALSE, tab |-> EmptyDict]

InitTree ==
  /\ pc = "trace_hosts"
  /\ RunInitVars(1)
  /\ IdlePartVars
  /\ \E gw \in IPs, raw \in RawScans, marked \in {{}, {1}} :
       /\ gateway_ip = gw
       /\ hosts = MarkInfrastructure(IdentifyHosts(raw, gw, LocalIP), marked)
  /\ arg = [hosts |-> hosts, next |-> 1]
  /\ ret = [done |-> FALSE, val |-> <<>>]
  /\ IdleSnmpVars
  /\ topology_tree = EmptyDict
  /\ l2_entries = <<>>
  /\ has_l2_data = FALSE
  /\ lldp_entries = <<>>
  /\ manual_topology = <<>>
  /\ trace_local = TRUE
  /\ local_traces = <<>>
  /\ traced = FALSE

\* The future of the next target: its path is appended, or its exception is
\* logged and the target left out.  (The futures complete in any order; the
\* paths are used by their targets only.)
TraceOne ==
  /\ pc = "trace_hosts"
  /\ arg.next <= Len(TraceTargets(hosts))
  /\ \E raised \in BOOLEAN :
       IF raised THEN UNCHANGED local_traces
       ELSE \E out \in BOOLEAN :
              \E xs \in IF out THEN SeqsUpTo(0..NumIPs, MaxPathHops) ELSE {<<>>} :
                local_traces' =
                  Append(local_traces,
                         RunTraceroute(TraceTargets(hosts)[arg.next], xs, out))
  /\ arg' = [arg EXCEPT !.next = @ + 1]
  /\ UNCHANGED <<pc, ret, partVars, runVars, snmpVars, gateway_ip, hosts, topology_tree, l2_entries,
                 has_l2_data, lldp_entries, manual_topology, trace_local, traced>>

CallBuildTopologyTree ==
  /\ pc = "trace_hosts"
  /\ arg.next > Len(TraceTargets(hosts))
  /\ LET r == BuildTopologyTree(hosts, local_traces, gateway_ip)
     IN /\ topology_tree' = r.tree
        /\ hosts' = r.hosts
  /\ traced' = TRUE
  /\ pc' = "tree_built"
  /\ UNCHANGED <<unitVars, runVars, snmpVars, gateway_ip, l2_entries, has_l2_data,
                 lldp_entries, manual_topology, trace_local, local_traces>>

NextTree == TraceOne \/ CallBuildTopologyTree

SpecTree == InitTree /\ [][NextTree]_vars

\* -------------------------------------------- specification SpecPool:
\* The ThreadPoolExecutor of trace_local_hosts ("trace"), of
\* LldpDiscovery.collect ("lldp") and of the ping sweep of _fallback_scan
\* ("ping"), with up to MaxTargets targets and MaxWorkers worker threads.
\* pool = [kind, targets, submitted |-> how many targets were submitted,
\*         state |-> of the future of each target, runs |-> how often the
\*         task of each target was started, yielded |-> the futures
\*         as_completed has yielded, out |-> what was appended or written,
\*         and by whom, tools |-> the trace tools in PATH, trace_cmd |->
\*         self._trace_cmd ("None" while not set), probes |-> how often
\*         PATH was searched for the trace tools, fping |-> how the fping
\*         of _fallback_scan went, hosts |-> what each host is, task |->
\*         what happened in the task of each target].
\* The ping sweep comes after the first read of the ARP table and fping.
PoolKinds == {"trace", "lldp", "ping"}

\* What happens in a task: for _query_host_raw, how the ssh command went
\* ("error" for an exception other than the two it catches); for the
\* others, whether they returned or raised.
Outcomes(kind) ==
  IF kind = "lldp"
    THEN {"timeout", "not_found", "nonzero", "empty", "invalid_json", "json", "error"}
    ELSE {"ok", "raised"}

\* _query_host_raw without json.loads.
QueryHostRawUnchecked(o) ==
  IF o \in {"json", "invalid_json"} THEN "ok" ELSE IF o = "error" THEN "raised" ELSE "none"

\* _query_host_raw: the output if the command exited with 0 and its output
\* is not blank and parses as JSON, else None.
QueryHostRaw(o) ==
  IF o = "json" THEN "ok" ELSE IF o = "error" THEN "raised" ELSE "none"

\* How a future ends: with a result, with None, or with an exception.
Finished == {"ok", "none", "raised"}

\* The hosts a pool is made for: the gateway and a host without address
\* are no targets.
HostKinds(kind) ==
  IF kind = "lldp" THEN {"host", "gateway", "no_ip"}
  ELSE IF kind = "trace" THEN {"host", "gateway"} ELSE {"host"}

\* targets = [h for h in hosts if ...], as the positions in hosts.
TargetsOf(hs) == SelectSeq([i \in DOMAIN hs |-> i], LAMBDA i : hs[i] = "host")

\* Without shutdown(wait=True) at the end of the with block.
JoinedWithoutWait(p) == TRUE

\* The end of the with block, shutdown(wait=True): every submitted task has
\* finished.
Joined(p) == \A i \in 1..p.submitted : p.state[i] \in Finished

\* _detect_trace_cmd's search: tracepath if present, else traceroute, else
\* "".
WhichTraceCmd(tools) ==
  IF "tracepath" \in tools THEN "tracepath"
  ELSE IF "traceroute" \in tools THEN "traceroute" ELSE ""

InitPool ==
  /\ \E kind \in PoolKinds, tools \in SUBSET {"tracepath", "traceroute"} :
       \E hs \in SeqsUpTo(HostKinds(kind), MaxTargets) :
         /\ kind = "ping" => hs # <<>>
         /\ kind # "trace" => tools = {}
         /\ pool = [kind |-> kind, hosts |-> hs, targets |-> TargetsOf(hs),
                    submitted |-> 0,
                    state |-> [i \in DOMAIN TargetsOf(hs) |-> "new"],
                    runs |-> [i \in DOMAIN TargetsOf(hs) |-> 0],
                    task |-> [i \in DOMAIN TargetsOf(hs) |-> ""],
                    yielded |-> {}, out |-> <<>>,
                    tools |-> tools, trace_cmd |-> "None", probes |-> 0,
                    fping |-> "not_run"]
         /\ pc = IF kind = "ping" THEN "read_arp_table"
                 ELSE IF TargetsOf(hs) = <<>> THEN "consume" ELSE "submit"
  /\ call = <<>>
  /\ ifc = <<>>
  /\ arg = <<>>
  /\ ret = [done |-> FALSE, val |-> <<>>]
  /\ RunInitVars(1)
  /\ IdleSnmpVars
  /\ gateway_ip = 0
  /\ hosts = <<>>
  /\ topology_tree = EmptyDict
  /\ l2_entries = <<>>
  /\ has_l2_data = FALSE
  /\ lldp_entries = <<>>
  /\ manual_topology = <<>>
  /\ trace_local = FALSE
  /\ local_traces = <<>>
  /\ traced = FALSE

\* _fallback_scan: the ARP table is read; if it has entries they are
\* returned.
ReadArpTable ==
  /\ pc = "read_arp_table"
  /\ \E results \in BOOLEAN :
       IF results THEN /\ ret' = [done |-> TRUE, val |-> <<"arp_table">>]
                       /\ pc' = "returned_arp_table"
                  ELSE /\ pc' = "fping"
                       /\ UNCHANGED ret
  /\ UNCHANGED <<arg, partVars, runVars, snmpVars, mergeVars>>

\* _fallback_scan: fping through _run_cmd, which returns "" when fping is
\* not in PATH, when it timed out, and when it printed no address; the
\* pings follow if the output is empty.
Fping ==
  /\ pc = "fping"
  /\ \E how \in {"not_found", "timed_out", "none_alive", "some_alive"} :
       /\ pool' = [pool EXCEPT !.fping = how]
       /\ pc' = IF how = "some_alive" THEN "consume" ELSE "submit"
  /\ UNCHANGED <<arg, ret, call, ifc, runVars, snmpVars, mergeVars>>

\* pool.submit of the next target (pool.map submits them all as well, and
\* its iterator is never read).
Submit ==
  /\ pc = "submit"
  /\ LET i == pool.submitted + 1
     IN /\ pool' = [pool EXCEPT !.submitted = i, !.state[i] = "queued"]
        /\ pc' = IF i < Len(pool.targets) THEN "submit"
                 ELSE IF pool.kind = "ping" THEN "join" ELSE "collect"
  /\ UNCHANGED <<arg, ret, call, ifc, runVars, snmpVars, mergeVars>>

\* A free worker thread takes a queued task.
WorkerStart ==
  /\ pool # <<>>
  /\ \E i \in DOMAIN pool.targets :
       /\ pool.state[i] = "queued"
       /\ Cardinality({j \in DOMAIN pool.targets :
                         pool.state[j] \in {"running", "probing", "tracing"}}) < MaxWorkers
       /\ pool' = [pool EXCEPT !.state[i] = "running", !.runs[i] = @ + 1]
  /\ UNCHANGED <<pc, arg, ret, call, ifc, runVars, snmpVars, mergeVars>>

\* trace_one reaches _detect_trace_cmd: the cached value is returned, or,
\* self._trace_cmd being None, the search of PATH begins.
DetectTraceCmd ==
  /\ pool # <<>>
  /\ pool.kind = "trace"
  /\ \E i \in DOMAIN pool.targets :
       /\ pool.state[i] = "running"
       /\ pool' = IF pool.trace_cmd # "None"
                    THEN [pool EXCEPT !.state[i] = "tracing"]
                    ELSE [pool EXCEPT !.state[i] = "probing", !.probes = @ + 1]
  /\ UNCHANGED <<pc, arg, ret, call, ifc, runVars, snmpVars, mergeVars>>

\* The search of PATH ends and its result is stored in self._trace_cmd.
StoreTraceCmd ==
  /\ pool # <<>>
  /\ \E i \in DOMAIN pool.targets :
       /\ pool.state[i] = "probing"
       /\ pool' = [pool EXCEPT !.state[i] = "tracing",
                               !.trace_cmd = WhichTraceCmd(pool.tools)]
  /\ UNCHANGED <<pc, arg, ret, call, ifc, runVars, snmpVars, mergeVars>>

\* trace_one, _query_host_raw or ping_one returns or raises: the outcome
\* goes to the future, nothing else is written.
WorkerFinish ==
  /\ pool # <<>>
  /\ \E i \in DOMAIN pool.targets, o \in Outcomes(pool.kind) :
       /\ pool.state[i] = IF pool.kind = "trace" THEN "tracing" ELSE "running"
       /\ pool' = [pool EXCEPT
                     !.task[i] = o,
                     !.state[i] = IF pool.kind = "lldp" THEN QueryHostRaw(o) ELSE o]
  /\ UNCHANGED <<pc, arg, ret, call, ifc, runVars, snmpVars, mergeVars>>

\* One round of the as_completed loop, in the calling thread: a finished
\* future is yielded; its path is appended (its file written), or its
\* None or exception logged.
Collect ==
  /\ pc = "collect"
  /\ \E i \in DOMAIN pool.targets \ pool.yielded :
       /\ pool.state[i] \in Finished
       /\ pool' = [pool EXCEPT
                     !.yielded = @ \cup {i},
                     !.out = IF pool.state[i] = "ok"
                               THEN Append(@, [target |-> pool.targets[i],
                                               by |-> "caller"])
                               ELSE @]
       /\ pc' = IF pool.yielded \cup {i} = DOMAIN pool.targets THEN "join"
                                                                ELSE "collect"
  /\ UNCHANGED <<arg, ret, call, ifc, runVars, snmpVars, mergeVars>>

\* The end of the with block.
Join ==
  /\ pc = "join"
  /\ Joined(pool)
  /\ pc' = "consume"
  /\ UNCHANGED <<unitVars, runVars, snmpVars, mergeVars>>

\* The return to the caller, which goes on to build_topology_tree,
\* load_and_parse or _read_arp_table with what was collected.
Consume ==
  /\ pc = "consume"
  /\ ret' = [done |-> TRUE, val |-> pool.out]
  /\ pc' = "consumed"
  /\ UNCHANGED <<arg, partVars, runVars, snmpVars, mergeVars>>

NextPool ==
  \/ ReadArpTable
  \/ Fping
  \/ Submit
  \/ WorkerStart
  \/ DetectTraceCmd
  \/ StoreTraceCmd
  \/ WorkerFinish
  \/ Collect
  \/ Join
  \/ Consume

SpecPool == InitPool /\ [][NextPool]_vars

\* ------------------------------------------- specification SpecCalls:
\* The blocking external calls of one run_discovery over one interface and
\* one host, in the order of the run.  call = [cfg |-> the options of the
\* run, site |-> position in Sites(cfg), state |-> "idle" or "blocked",
\* timed_out |-> the calls whose deadline expired].
Configs == [interface : BOOLEAN, snmp : BOOLEAN, is_root : BOOLEAN, use_nmap : BOOLEAN,
            lldp_collect : BOOLEAN, trace_local : BOOLEAN]

\* The calls of a run: SNMP discovery, discover_local_interface,
\* scan_local_subnet (scapy, or the ARP table, fping, the pings and the ARP
\* table again), identify_hosts (reverse DNS, nmap: the reading of its
\* output, then the wait for its exit), LLDP collection, the trace tool.
Sites(cfg) ==
  (IF cfg.snmp THEN <<"snmp">> ELSE <<>>)
  \o <<"ip_route", "ip_addr", "ip_link">>
  \o (IF cfg.is_root THEN <<"arp_scan">>
                     ELSE <<"ip_neigh", "fping", "ping", "ip_neigh">>)
  \o <<"rdns">>
  \o (IF cfg.use_nmap THEN <<"nmap_read", "nmap_wait">> ELSE <<>>)
  \o (IF cfg.lldp_collect THEN <<"ssh">> ELSE <<>>)
  \o (IF cfg.trace_local THEN <<"tracepath">> ELSE <<>>)

\* The calls made through _run_cmd: subprocess.run(..., timeout=timeout).
RunCmdSites == {"ip_route", "ip_addr", "ip_link", "ip_neigh", "fping", "tracepath"}

\* subprocess.run(..., timeout=3), subprocess.run(..., timeout=15) and
\* proc.wait(timeout=self.timeout + 60).
TimeoutSites == {"ping", "ssh", "nmap_wait"}

\* srp(..., timeout=self.timeout); the transport's and the resolver's own
\* timeouts.
LibrarySites == {"arp_scan", "snmp", "rdns"}

\* The calls that end when their deadline expires.  The loop over
\* proc.stdout has none.
HasDeadline(site) == site \in RunCmdSites \cup TimeoutSites \cup LibrarySites

InitCalls ==
  /\ pc = "calls"
  /\ \E cfg \in Configs :
       call = [cfg |-> cfg, site |-> 0, state |-> "idle", timed_out |-> {}]
  /\ pool = <<>>
  /\ ifc = <<>>
  /\ arg = <<>>
  /\ ret = [done |-> FALSE, val |-> <<>>]
  /\ RunInitVars(1)
  /\ IdleSnmpVars
  /\ gateway_ip = 0
  /\ hosts = <<>>
  /\ topology_tree = EmptyDict
  /\ l2_entries = <<>>
  /\ has_l2_data = FALSE
  /\ lldp_entries = <<>>
  /\ manual_topology = <<>>
  /\ trace_local = FALSE
  /\ local_traces = <<>>
  /\ traced = FALSE

\* The call the run has reached.
Site(c) == IF c.site = 0 THEN "" ELSE Sites(c.cfg)[c.site]

\* The dump of the default routes came back empty and no interface was
\* given: "No interface found", sys.exit(1).
NoInterface(c) ==
  Site(c) = "ip_route" /\ "ip_route" \in c.timed_out /\ ~c.cfg.interface

\* The dump of the addresses came back empty: the interface has no address
\* and is skipped, primary_iface stays None.
NoAddress(c) == Site(c) = "ip_link" /\ "ip_addr" \in c.timed_out

\* The run reaches its next call and blocks in it.
IssueCall ==
  /\ pc = "calls"
  /\ call.state = "idle"
  /\ call.site < Len(Sites(call.cfg))
  /\ ~NoInterface(call)
  /\ ~NoAddress(call)
  /\ call' = [call EXCEPT !.site = @ + 1, !.state = "blocked"]
  /\ UNCHANGED <<pc, arg, ret, pool, ifc, runVars, snmpVars, mergeVars>>

\* The tool answers: the command exits, the reply arrives, nmap closes its
\* output.
ToolAnswers ==
  /\ pc = "calls"
  /\ call.state = "blocked"
  /\ call' = [call EXCEPT !.state = "idle"]
  /\ UNCHANGED <<pc, arg, ret, pool, ifc, runVars, snmpVars, mergeVars>>

\* The deadline of the call expires: TimeoutExpired is caught (_run_cmd,
\* _query_host_raw, _nmap_scan) or kept in the future of ping_one, the
\* libraries report no answer; the run goes on with an empty result.
DeadlineExpires ==
  /\ pc = "calls"
  /\ call.state = "blocked"
  /\ HasDeadline(Sites(call.cfg)[call.site])
  /\ call' = [call EXCEPT !.state = "idle",
                          !.timed_out = @ \cup {Sites(call.cfg)[call.site]}]
  /\ UNCHANGED <<pc, arg, ret, pool, ifc, runVars, snmpVars, mergeVars>>

\* After the last call run_discovery returns the NetworkTopology.
ReturnTopology ==
  /\ pc = "calls"
  /\ call.state = "idle"
  /\ call.site = Len(Sites(call.cfg))
  /\ pc' = "done"
  /\ UNCHANGED <<unitVars, runVars, snmpVars, mergeVars>>

\* sys.exit(1) in discover_local_interface.
ExitNoInterface ==
  /\ pc = "calls"
  /\ call.state = "idle"
  /\ NoInterface(call)
  /\ pc' = "exit_1"
  /\ UNCHANGED <<unitVars, runVars, snmpVars, mergeVars>>

\* assert primary_iface is not None, after the only interface was skipped.
AssertionFails ==
  /\ pc = "calls"
  /\ call.state = "idle"
  /\ NoAddress(call)
  /\ pc' = "assertion_error"
  /\ UNCHANGED <<unitVars, runVars, snmpVars, mergeVars>>

\* The steps of the program and of its timers, which do not wait for a tool.
ProgramStep ==
  IssueCall \/ DeadlineExpires \/ ReturnTopology \/ ExitNoInterface \/ AssertionFails

NextCalls == ProgramStep \/ ToolAnswers

SpecCalls == InitCalls /\ [][NextCalls]_vars

\* ------------------------------------------- specification SpecIface:
\* discover_local_interface with the interface given to the scanner and the
\* interface of the first default route, names of up to MaxNameLen
\* characters.  ifc = [interface |-> self.interface ("" and None = <<>>),
\* default_iface, iface_name, cmds |-> the commands run, each with the
\* interface it names (<<>> when it names none)].
\* A character of the class [a-zA-Z0-9._-], one outside it, and the newline.
Allowed == {"a"}

Chars == {"a", ";", "\n"}

\* What \S+ can match in a line of the route dump: no white space.
RouteNames == SeqsUpTo(Chars \ {"\n"}, MaxNameLen)

\* re.match(r"^[a-zA-Z0-9._-]+$", name): $ matches at the end of the string
\* and before a newline that ends the string.
ValidateInterfaceName(name) ==
  LET body == IF name # <<>> /\ name[Len(name)] = "\n"
                THEN SubSeq(name, 1, Len(name) - 1) ELSE name
  IN body # <<>> /\ \A i \in DOMAIN body : body[i] \in Allowed

InitIface ==
  /\ pc = "route"
  /\ \E given \in SeqsUpTo(Chars, MaxNameLen) :
       ifc = [interface |-> given, default_iface |-> <<>>, iface_name |-> <<>>,
              cmds |-> <<>>]
  /\ pool = <<>>
  /\ call = <<>>
  /\ arg = <<>>
  /\ ret = [done |-> FALSE, val |-> <<>>]
  /\ RunInitVars(1)
  /\ IdleSnmpVars
  /\ gateway_ip = 0
  /\ hosts = <<>>
  /\ topology_tree = EmptyDict
  /\ l2_entries = <<>>
  /\ has_l2_data = FALSE
  /\ lldp_entries = <<>>
  /\ manual_topology = <<>>
  /\ trace_local = FALSE
  /\ local_traces = <<>>
  /\ traced = FALSE

\* ip -4 route show default, and the choice of the name.
RouteDump ==
  /\ pc = "route"
  /\ \E d \in RouteNames :
       ifc' = [ifc EXCEPT
                 !.default_iface = d,
                 !.iface_name = IF ifc.interface # <<>> THEN ifc.interface ELSE d,
                 !.cmds = Append(@, [cmd |-> "route_default", dev |-> <<>>])]
  /\ pc' = "validate"
  /\ UNCHANGED <<arg, ret, pool, call, runVars, snmpVars, mergeVars>>

\* The two tests of the name, each ending in sys.exit(1).
ValidateName ==
  /\ pc = "validate"
  /\ pc' = IF ifc.iface_name = <<>> THEN "exit_1"
           ELSE IF ~ValidateInterfaceName(ifc.iface_name) THEN "exit_1"
           ELSE "details"
  /\ UNCHANGED <<unitVars, runVars, snmpVars, mergeVars>>

\* The commands that name the interface (the routes of the device only when
\* the default routes gave no gateway for it), and the return of the
\* NetworkInterface.
InterfaceDetails ==
  /\ pc = "details"
  /\ \E has_gateway \in BOOLEAN :
       /\ has_gateway => ifc.iface_name = ifc.default_iface
       /\ ifc' = [ifc EXCEPT !.cmds =
                    @ \o (IF has_gateway THEN <<>>
                          ELSE <<[cmd |-> "route_dev", dev |-> ifc.iface_name]>>)
                      \o <<[cmd |-> "addr_dev", dev |-> ifc.iface_name],
                           [cmd |-> "link_dev", dev |-> ifc.iface_name]>>]
  /\ ret' = [done |-> TRUE, val |-> ifc.iface_name]
  /\ pc' = "returned"
  /\ UNCHANGED <<arg, pool, call, runVars, snmpVars, mergeVars>>

NextIface == RouteDump \/ ValidateName \/ InterfaceDetails

SpecIface == InitIface /\ [][NextIface]_vars

\* ------------------------------------------- specification SpecMulti:
\* run_discovery over up to MaxIfaces interfaces, some of them without an
\* address, with the MAC table and the manual links shared by the subnets,
\* without LLDP directory and without trace_local.
InitMulti ==
  /\ pc = "scan"
  /\ \E t \in OneSwitchTables :
       /\ switches = t.sw
       /\ mac_table = [set |-> t.set, tab |-> t.tab]
  /\ qpc = [i \in DOMAIN switches |-> "returned"]
  /\ qbp = [i \in DOMAIN switches |-> EmptyDict]
  /\ qres = [i \in DOMAIN switches |-> EmptyDict]
  /\ qfailed = [i \in DOMAIN switches |-> FALSE]
  /\ \E n \in 1..MaxIfaces : RunInitVars(n)
  /\ IdlePartVars
  /\ arg = <<>>
  /\ ret = [done |-> FALSE, val |-> <<>>]
  /\ gateway_ip = 0
  /\ hosts = <<>>
  /\ topology_tree = EmptyDict
  /\ l2_entries = <<>>
  /\ has_l2_data = FALSE
  /\ lldp_entries = <<>>
  /\ manual_topology \in ManualLinks(1)
  /\ trace_local = FALSE
  /\ local_traces = <<>>
  /\ traced = FALSE

NextMulti ==
  \/ ScanSubnet
  \/ SkipInterface
  \/ MergeSnmp
  \/ MergeLldpFrom(NoLldpDir)
  \/ MergeManualOf(manual_topology)
  \/ DefaultToGateway
  \/ TracerouteFallbackOf(trace_local)
  \/ AppendSubnet

SpecMulti == InitMulti /\ [][NextMulti]_vars

\* ---------------------------------------------- specification SpecFn:
\* Functions applied on their own to bounded arguments.
\* _categorize_host: vendor and hostname are strings of up to MaxStrLen
\* letters; "A" and "B" are the upper-case forms of "a" and "b".
Letters == {"a", "A", "b", "B", "c"}

\* str.lower().
LowerStr(str) ==
  [i \in DOMAIN str |-> IF str[i] = "A" THEN "a" ELSE IF str[i] = "B" THEN "b" ELSE str[i]]

\* sub in str.
Contains(sub, str) ==
  \E i \in 0..(Len(str) - Len(sub)) : SubSeq(str, i + 1, i + Len(sub)) = sub

\* _CATEGORY_RULES, cut down to three rules with short patterns: vendor
\* patterns in mixed case, hostname patterns in lower case.
CategoryRules ==
  <<[category |-> "INFRASTRUCTURE", vendor_patterns |-> <<<<"A">>, <<"A", "c">>>>,
     hostname_patterns |-> <<<<"b">>>>],
    [category |-> "SERVER", vendor_patterns |-> <<<<"B">>>>,
     hostname_patterns |-> <<<<"a", "c">>>>],
    [category |-> "IOT", vendor_patterns |-> <<<<"c", "B">>>>,
     hostname_patterns |-> <<<<"c">>>>]>>

\* The vendor patterns of all rules tried before any hostname pattern.
CategorizeVendorFirst(host) ==
  LET byVendor == {k \in DOMAIN CategoryRules :
                     \E j \in DOMAIN CategoryRules[k].vendor_patterns :
                       Contains(LowerStr(CategoryRules[k].vendor_patterns[j]),
                                LowerStr(host.vendor))}
      byName == {k \in DOMAIN CategoryRules :
                   \E j \in DOMAIN CategoryRules[k].hostname_patterns :
                     Contains(CategoryRules[k].hostname_patterns[j],
                              LowerStr(host.hostname))}
  IN IF byVendor # {} THEN CategoryRules[MinOf(byVendor)].category
     ELSE IF byName # {} THEN CategoryRules[MinOf(byName)].category
     ELSE "OTHER"

\* _categorize_host: the loop over the rules from rule k on.
RECURSIVE CategorizeFrom(_, _)
CategorizeFrom(host, k) ==
  IF k > Len(CategoryRules) THEN "OTHER"
  ELSE LET rule == CategoryRules[k]
           vendor_lower == LowerStr(host.vendor)
           hostname_lower == LowerStr(host.hostname)
       IN IF \E j \in DOMAIN rule.vendor_patterns :
               Contains(LowerStr(rule.vendor_patterns[j]), vendor_lower)
            THEN rule.category
          ELSE IF \E j \in DOMAIN rule.hostname_patterns :
                    Contains(rule.hostname_patterns[j], hostname_lower)
            THEN rule.category
          ELSE CategorizeFrom(host, k + 1)

CategorizeHost(host) == CategorizeFrom(host, 1)

CategorizeArgs ==
  [vendor : SeqsUpTo(Letters, MaxStrLen), hostname : SeqsUpTo(Letters, MaxStrLen),
   is_gateway : BOOLEAN]

\* The ARP replies given to identify_hosts: up to MaxRaw of them, in any
\* order, the own address and repeated addresses among them.
RawReplies == SeqsUpTo([ip : 1..LocalIP, mac : 1..2], MaxRaw)

InitFn ==
  /\ \/ pc = "categorize_host" /\ arg \in CategorizeArgs
     \/ pc = "identify_hosts"
          /\ arg \in [raw : RawReplies, gw_ip : 0..NumIPs, local_ip : {LocalIP}]
     \/ pc = "parse_trace"
          /\ arg \in [target : IPs, xs : SeqsUpTo(0..NumIPs, MaxPathHops)]
  /\ ret = [done |-> FALSE, val |-> <<>>]
  /\ RunInitVars(1)
  /\ IdlePartVars
  /\ IdleSnmpVars
  /\ gateway_ip = 0
  /\ hosts = <<>>
  /\ topology_tree = EmptyDict
  /\ l2_entries = <<>>
  /\ has_l2_data = FALSE
  /\ lldp_entries = <<>>
  /\ manual_topology = <<>>
  /\ trace_local = FALSE
  /\ local_traces = <<>>
  /\ traced = FALSE

CallCategorizeHost ==
  /\ pc = "categorize_host"
  /\ ret' = [done |-> TRUE, val |-> CategorizeHost(arg)]
  /\ pc' = "returned_category"
  /\ UNCHANGED <<arg, partVars, runVars, snmpVars, mergeVars>>

CallIdentifyHosts ==
  /\ pc = "identify_hosts"
  /\ ret' = [done |-> TRUE, val |-> IdentifyHosts(arg.raw, arg.gw_ip, arg.local_ip)]
  /\ pc' = "returned_hosts"
  /\ UNCHANGED <<arg, partVars, runVars, snmpVars, mergeVars>>

\* _parse_traceroute or _parse_tracepath applied to the output of the tool.
CallParseTrace ==
  /\ pc = "parse_trace"
  /\ ret' = [done |-> TRUE, val |-> ParseTrace(arg.target, arg.xs)]
  /\ pc' = "returned_path"
  /\ UNCHANGED <<arg, partVars, runVars, snmpVars, mergeVars>>

NextFn ==
  \/ CallCategorizeHost
  \/ CallIdentifyHosts
  \/ CallParseTrace

SpecFn == InitFn /\ [][NextFn]_vars

\* ------------------------------------------------------------ properties
\* The subnet's result is complete: the SubnetScan is about to be, or has
\* been, appended.
SubnetDone == pc \in {"append", "done"}

\* Following the parent links from cur never comes back to a node of seen.
RECURSIVE NoRevisit(_, _, _)
NoRevisit(tree, cur, seen) ==
  IF cur \notin DOMAIN tree THEN TRUE
  ELSE IF tree[cur] \in seen \cup {cur} THEN FALSE
  ELSE NoRevisit(tree, tree[cur], seen \cup {cur})

IsForest(tree) == \A k \in DOMAIN tree : NoRevisit(tree, k, {})

\* C1: in the SubnetScan run_discovery returns, topology_tree is a forest:
\* from no key do the parent links lead back to a node already visited.
C1_TreeIsForest == SubnetDone => IsForest(topology_tree)

\* What build_l2_topology made of the hosts and the MAC table.
SnmpResult == BuildL2Topology(hosts, mac_table.tab, Range(switches))

SnmpUplinks == UplinkPorts(hosts, mac_table.tab, Range(switches))

MappingsOf(h) ==
  IF h.mac # 0 /\ Lower(h.mac) \in DOMAIN mac_table.tab
    THEN Range(mac_table.tab[Lower(h.mac)]) ELSE {}

DirectMappings(h) == {m \in MappingsOf(h) : ~IsUplink(m, SnmpUplinks)}

\* No entry of host h is on an uplink port, and its parent is a switch on
\* which its MAC was learned on a port that is no uplink.
OnDirectPort(h) ==
  /\ \A i \in DOMAIN l2_entries :
       l2_entries[i].host_ip = h.ip =>
         ~IsUplink([switch_ip |-> l2_entries[i].switch_ip,
                    port_index |-> l2_entries[i].port_index], SnmpUplinks)
  /\ h.ip \in DOMAIN topology_tree =>
       topology_tree[h.ip] \in {m.switch_ip : m \in DirectMappings(h)}

AfterSnmp == pc = "lldp" /\ mac_table.set

\* C2 as stated: after build_l2_topology, every host for whose MAC the table
\* holds a mapping that is not on an uplink port has no entry on an uplink
\* port and no parent reached through one.
C2_NeverUplinkWhenDirect ==
  AfterSnmp =>
    \A i \in DOMAIN hosts :
      (hosts[i].ip \in DOMAIN topology_tree /\ DirectMappings(hosts[i]) # {})
        => OnDirectPort(hosts[i])

IsQueriedSwitch(h) == h.ip \in DOMAIN SwitchMacs(hosts, Range(switches))

\* C2 as amended: the same for every host that is not itself a queried
\* switch (the switch-to-switch step gives a queried switch an entry on the
\* port of every other switch that learned its MAC).
C2_HostNeverUplinkWhenDirect ==
  AfterSnmp =>
    \A i \in DOMAIN hosts :
      (hosts[i].ip \in DOMAIN topology_tree /\ DirectMappings(hosts[i]) # {}
         /\ ~IsQueriedSwitch(hosts[i]))
        => OnDirectPort(hosts[i])

\* A host that is no switch, whose MAC was learned first on an uplink port
\* and then on a direct port, got its entry on the direct port.
C2_Witness ==
  /\ AfterSnmp
  /\ \E i \in DOMAIN hosts :
       /\ ~IsQueriedSwitch(hosts[i])
       /\ hosts[i].ip \in DOMAIN topology_tree
       /\ MappingsOf(hosts[i]) # {}
       /\ IsUplink(mac_table.tab[Lower(hosts[i].mac)][1], SnmpUplinks)
       /\ DirectMappings(hosts[i]) # {}
       /\ OnDirectPort(hosts[i])

AfterGather == pc = "scan"

\* The (MAC, port) pairs the returned table attributes to switch i.
MappingsFrom(i) ==
  {x \in MACs \X Ports :
     /\ x[1] \in DOMAIN mac_table.tab
     /\ \E j \in DOMAIN mac_table.tab[x[1]] :
          /\ mac_table.tab[x[1]][j].switch_ip = switches[i]
          /\ mac_table.tab[x[1]][j].port_index = x[2]}

\* C9: discover returns; the result holds every mapping of every switch whose
\* query raised nothing, and no mapping of a switch whose query raised.
C9_FailureIsolated ==
  AfterGather =>
    \A i \in Tasks :
      IF qfailed[i]
        THEN MappingsFrom(i) = {}
        ELSE MappingsFrom(i) = {<<m, qres[i][m]>> : m \in DOMAIN qres[i]}

\* The parents SNMP alone gives: the tree of build_l2_topology.
SnmpTree == IF mac_table.set THEN SnmpResult.tree ELSE EmptyDict

LldpFor(x) == {i \in DOMAIN lldp_entries : lldp_entries[i].host_ip = x}

LldpResolvedFor(x) == {i \in LldpFor(x) : lldp_entries[i].switch_ip # 0}

AfterLldp == pc = "manual"

\* C3 as stated: after the LLDP merge, a host with an SNMP entry and an LLDP
\* entry has the LLDP entry's switch IP as its parent.
C3_LldpOverridesSnmp ==
  AfterLldp =>
    \A x \in DOMAIN SnmpTree : \A i \in LldpFor(x) :
      x \in DOMAIN topology_tree /\ topology_tree[x] = lldp_entries[i].switch_ip

\* C3 as amended: after the LLDP merge, a host with an SNMP entry has as its
\* parent the switch IP of its last LLDP entry that has a switch IP, and the
\* SNMP parent when none of its LLDP entries has one.
C3_LastResolvedLldpOverridesSnmp ==
  AfterLldp =>
    \A x \in DOMAIN SnmpTree :
      /\ x \in DOMAIN topology_tree
      /\ topology_tree[x] =
           IF LldpResolvedFor(x) # {}
             THEN lldp_entries[MaxOf(LldpResolvedFor(x))].switch_ip
             ELSE SnmpTree[x]

\* A host whose SNMP parent was replaced by the switch of its LLDP entry.
C3_Witness ==
  /\ AfterLldp
  /\ \E x \in DOMAIN SnmpTree :
       /\ LldpResolvedFor(x) # {}
       /\ topology_tree[x] # SnmpTree[x]
       /\ topology_tree[x] = lldp_entries[MaxOf(LldpResolvedFor(x))].switch_ip

AfterManual == pc \in {"default", "trace", "append", "done"}

EntriesFor(x) == {j \in DOMAIN l2_entries : l2_entries[j].host_ip = x}

LinksFor(x) == {i \in DOMAIN manual_topology : manual_topology[i].host_ip = x}

\* Host x has the switch sw as its parent and one entry, of source manual.
ManualWins(x, sw) ==
  /\ x \in DOMAIN topology_tree
  /\ topology_tree[x] = sw
  /\ Cardinality(EntriesFor(x)) = 1
  /\ \A j \in EntriesFor(x) : l2_entries[j].source = "manual"

NoEntryFor(x) == x \notin DOMAIN topology_tree /\ EntriesFor(x) = {}

\* C4 as stated: after the manual merge, every link whose host is on the
\* subnet decides the host's parent and leaves one entry for it, of source
\* manual; a link whose host is not on the subnet adds nothing.
C4_ManualLinkWins ==
  AfterManual =>
    \A i \in DOMAIN manual_topology :
      IF manual_topology[i].host_ip \in HostIPs(hosts)
        THEN ManualWins(manual_topology[i].host_ip, manual_topology[i].sw_ip)
        ELSE NoEntryFor(manual_topology[i].host_ip)

\* C4 as amended: the same, with the parent and the entry decided by the
\* last link of the host.
C4_LastManualLinkWins ==
  AfterManual =>
    \A i \in DOMAIN manual_topology :
      LET x == manual_topology[i].host_ip
      IN IF x \in HostIPs(hosts)
           THEN /\ ManualWins(x, manual_topology[MaxOf(LinksFor(x))].sw_ip)
                /\ \A j \in EntriesFor(x) :
                     l2_entries[j].switch_ip = manual_topology[MaxOf(LinksFor(x))].sw_ip
           ELSE NoEntryFor(x)

\* A manual link replaced the SNMP entry and parent of its host, and another
\* link, for a host outside the subnet, left nothing.
C4_Witness ==
  /\ pc = "done"
  /\ \E i \in DOMAIN manual_topology :
       /\ manual_topology[i].host_ip \in DOMAIN SnmpTree
       /\ manual_topology[i].sw_ip # SnmpTree[manual_topology[i].host_ip]
       /\ ManualWins(manual_topology[i].host_ip, manual_topology[i].sw_ip)
  /\ \E i \in DOMAIN manual_topology :
       /\ manual_topology[i].host_ip \notin HostIPs(hosts)
       /\ NoEntryFor(manual_topology[i].host_ip)

\* A structured source produced entries for this subnet.
Produced ==
  \/ mac_table.set /\ SnmpResult.l2 # <<>>
  \/ lldp_entries # <<>>
  \/ ManualL2(hosts, manual_topology) # <<>>

\* The parents the structured sources and the default give to host x.
SourceParents(x) ==
  {SnmpTree[y] : y \in DOMAIN SnmpTree \cap {x}}
    \cup {lldp_entries[i].switch_ip : i \in LldpResolvedFor(x)}
    \cup {manual_topology[i].sw_ip : i \in LinksFor(x)}

\* C5: the traceroute fallback ran only if no structured source produced
\* data; when one did, there is no local trace and every parent comes from
\* a structured source or is the default gateway.
C5_FallbackOnlyWithoutData ==
  SubnetDone =>
    /\ traced => ~Produced
    /\ Produced =>
         /\ ~traced
         /\ local_traces = <<>>
         /\ \A x \in DOMAIN topology_tree :
              topology_tree[x] \in SourceParents(x) \cup {GatewayOf(hosts)}

\* trace_local is set and the gateway known, but a source produced data: no
\* trace was made.
C5_Witness ==
  /\ SubnetDone
  /\ trace_local
  /\ GatewayOf(hosts) # 0
  /\ Produced
  /\ ~traced
  /\ topology_tree # EmptyDict

AfterDefault == pc \in {"trace", "append", "done"}

\* C6: with a known gateway and data of a structured source, every host
\* that is not the gateway has a parent, and the parent of a host no source
\* mapped is the gateway.
C6_EveryHostHasParent ==
  (AfterDefault /\ Produced /\ GatewayOf(hosts) # 0) =>
    \A i \in DOMAIN hosts :
      ~hosts[i].is_gateway =>
        /\ hosts[i].ip \in DOMAIN topology_tree
        /\ SourceParents(hosts[i].ip) = {} =>
             topology_tree[hosts[i].ip] = GatewayOf(hosts)

\* A host marked as infrastructure that no source mapped got the gateway.
C6_Witness ==
  /\ AfterDefault /\ Produced /\ GatewayOf(hosts) # 0
  /\ \E i \in DOMAIN hosts :
       /\ ~hosts[i].is_gateway
       /\ hosts[i].is_infrastructure
       /\ SourceParents(hosts[i].ip) = {}
       /\ topology_tree[hosts[i].ip] = GatewayOf(hosts)

\* C7: no host is both the gateway and marked as infrastructure.
C7_GatewayNeverInfrastructure ==
  \A i \in DOMAIN hosts : ~(hosts[i].is_gateway /\ hosts[i].is_infrastructure)

\* The hosts that are the parent of another node of the tree.
ParentsOfOthers ==
  {topology_tree[k] : k \in {k \in DOMAIN topology_tree : topology_tree[k] # k}}

\* The real hops of the local traces other than the last real hop of a path.
NonFinalHops ==
  UNION {{RealHops(local_traces[i].hops)[j].ip :
            j \in 1..(Len(RealHops(local_traces[i].hops)) - 1)} :
         i \in DOMAIN local_traces}

NamedAsSwitch ==
  (IF mac_table.set THEN Range(switches) ELSE {})
    \cup InfrastructureOfLldp(lldp_entries)
    \cup {manual_topology[i].sw_ip :
            i \in {i \in DOMAIN manual_topology :
                     manual_topology[i].host_ip \in HostIPs(hosts)}}
    \cup NonFinalHops

NoRealHop(hops) == \A i \in DOMAIN hops : hops[i].is_timeout \/ hops[i].ip = 0

\* C10: _cleanup_trace turns a path that is not completed and has no real
\* hop into a path of one hop (the target, "UNREACHABLE", a timeout), and
\* returns a completed path as it is.
C10_CleanupTrace ==
  ret.done =>
    /\ (~arg.completed /\ NoRealHop(arg.hops)) =>
         /\ Len(ret.val.hops) = 1
         /\ ret.val.hops[1].ip = arg.target
         /\ ret.val.hops[1].hostname = "UNREACHABLE"
         /\ ret.val.hops[1].is_timeout
    /\ arg.completed => ret.val = arg

\* A path of MaxPathHops hops without a real hop, one of them with an address,
\* was collapsed to the one hop.
C10_Witness ==
  /\ ret.done
  /\ ~arg.completed
  /\ Len(arg.hops) = MaxPathHops
  /\ NoRealHop(arg.hops)
  /\ \E i \in DOMAIN arg.hops : arg.hops[i].ip # 0
  /\ ret.val.hops = <<Hop(1, arg.target, "UNREACHABLE", TRUE)>>

\* The positions of the real hops of a path, and the j-th of them.
RealAt(hops) == {i \in DOMAIN hops : ~hops[i].is_timeout /\ hops[i].ip # 0}

NthReal(hops, j) ==
  CHOOSE i \in RealAt(hops) : Cardinality({k \in RealAt(hops) : k <= i}) = j

\* The first hops of the result are the real hops of the argument, in order.
KeepsRealHops ==
  /\ Len(ret.val.hops) >= Cardinality(RealAt(arg.hops))
  /\ \A j \in 1..Cardinality(RealAt(arg.hops)) :
       ret.val.hops[j] = arg.hops[NthReal(arg.hops, j)]

\* After the real hops comes the one synthetic hop, and nothing else.
EndsUnreachable ==
  LET n == Cardinality(RealAt(arg.hops))
  IN /\ Len(ret.val.hops) = n + 1
     /\ ret.val.hops[n + 1].hostname = "UNREACHABLE"
     /\ ret.val.hops[n + 1].is_timeout
     /\ ret.val.hops[n + 1].ip = arg.target

\* A timeout hop numbered above the last real hop.
HasTrailingTimeout(hops) ==
  \E i \in DOMAIN hops :
    hops[i].is_timeout /\ \A k \in RealAt(hops) : hops[i].hop_number > hops[k].hop_number

Partial == ret.done /\ ~arg.completed /\ RealAt(arg.hops) # {}

\* C11 as stated: _cleanup_trace of a path that did not complete and has a
\* real hop returns the real hops in order, followed by exactly one
\* synthetic UNREACHABLE hop.
C11_PartialEndsUnreachable == Partial => (KeepsRealHops /\ EndsUnreachable)

\* C11 as amended: the real hops in order, followed by the synthetic hop
\* when a timeout came after the last real hop and by nothing otherwise.
C11_PartialCollapsesTrailingTimeouts ==
  Partial =>
    /\ KeepsRealHops
    /\ IF HasTrailingTimeout(arg.hops)
         THEN EndsUnreachable
         ELSE Len(ret.val.hops) = Cardinality(RealAt(arg.hops))

\* A timeout, a real hop and a timeout became the real hop and the
\* synthetic hop.
C11_Witness ==
  /\ Partial
  /\ Len(arg.hops) = 3
  /\ RealAt(arg.hops) = {2}
  /\ arg.hops[1].is_timeout /\ arg.hops[3].is_timeout
  /\ Len(ret.val.hops) = 2
  /\ EndsUnreachable

TreeBuilt == pc = "tree_built"

NumReal(path) == Cardinality(RealAt(path.hops))

\* C12: build_topology_tree maps the target of every path to the gateway
\* when the path has no or one real hop, and to the real hop before the last
\* when it has two or more; there is no other key.
C12_TraceParent ==
  TreeBuilt =>
    /\ DOMAIN topology_tree = {local_traces[i].target : i \in DOMAIN local_traces}
    /\ \A i \in DOMAIN local_traces :
         LET p == local_traces[i]
         IN topology_tree[p.target] =
              IF NumReal(p) <= 1 THEN gateway_ip
              ELSE p.hops[NthReal(p.hops, NumReal(p) - 1)].ip

\* A completed path of a real hop, a timeout and the target: the parent is
\* the first hop, and it is not the gateway.
C12_Witness ==
  /\ TreeBuilt
  /\ \E i \in DOMAIN local_traces :
       LET p == local_traces[i]
       IN /\ Len(p.hops) = 3
          /\ p.hops[2].is_timeout
          /\ RealAt(p.hops) = {1, 3}
          /\ topology_tree[p.target] = p.hops[1].ip
          /\ p.hops[1].ip # gateway_ip
  /\ \E i \in DOMAIN local_traces :
       NumReal(local_traces[i]) <= 1
         /\ topology_tree[local_traces[i].target] = gateway_ip

\* The real hops from the from-th to the one before the last, of the paths
\* with two or more real hops.
HopsBeforeLast(from) ==
  UNION {{local_traces[i].hops[NthReal(local_traces[i].hops, j)].ip :
            j \in from..(NumReal(local_traces[i]) - 1)} :
         i \in {i \in DOMAIN local_traces : NumReal(local_traces[i]) >= 2}}

\* The hosts marked now are those marked before and those of S.
MarksExactly(S) ==
  /\ Len(hosts) = Len(arg.hosts)
  /\ \A i \in DOMAIN hosts :
       /\ hosts[i].ip = arg.hosts[i].ip
       /\ hosts[i].is_infrastructure <=>
            (arg.hosts[i].is_infrastructure \/ hosts[i].ip \in S)

C14_OneEntryPerHost ==
  AfterSnmp =>
    /\ DOMAIN topology_tree = {l2_entries[j].host_ip : j \in DOMAIN l2_entries}
    /\ \A x \in DOMAIN topology_tree :
         /\ Cardinality(EntriesFor(x)) = 1
         /\ \A j \in EntriesFor(x) :
              /\ l2_entries[j].source = "snmp"
              /\ l2_entries[j].switch_ip = topology_tree[x]

AfterLldpMerge == pc \in {"manual", "default", "trace", "append", "done"}

\* C15: an LLDP entry without a switch IP is dropped at the merge: from the
\* LLDP merge on l2_entries holds no such entry, and a host with an SNMP
\* entry and no LLDP entry with a switch IP keeps its SNMP entry until a
\* manual link replaces it.
C15_UnmatchedLldpDropped ==
  AfterLldpMerge =>
    /\ \A j \in DOMAIN l2_entries :
         ~(l2_entries[j].source = "lldp" /\ l2_entries[j].switch_ip = 0)
    /\ \A x \in DOMAIN SnmpTree :
         (LldpResolvedFor(x) = {} /\ LinksFor(x) = {}) =>
           \E j \in EntriesFor(x) : l2_entries[j].source = "snmp"

\* C16: when the step that consumes the results of a pool starts
\* (build_topology_tree, load_and_parse, the re-read of the ARP cache after
\* a ping sweep), every
\* target was dispatched, its task was started exactly once and has
\* finished, and all that was appended or written was so by the calling
\* thread, once per target at most.
C16_JoinedBeforeConsume ==
  pc \in {"consume", "consumed"} /\ pool.fping # "some_alive" =>
    /\ pool.submitted = Len(pool.targets)
    /\ \A i \in DOMAIN pool.targets :
         pool.state[i] \in Finished /\ pool.runs[i] = 1
    /\ \A k \in DOMAIN pool.out : pool.out[k].by = "caller"
    /\ \A k, l \in DOMAIN pool.out :
         pool.out[k].target = pool.out[l].target => k = l
    /\ pool.kind # "ping" =>
         {pool.out[k].target : k \in DOMAIN pool.out} =
           {pool.targets[i] : i \in {i \in DOMAIN pool.targets : pool.state[i] = "ok"}}

C16_Witness ==
  /\ pc = "consumed"
  /\ pool.kind = "ping"
  /\ Len(pool.targets) = 3
  /\ pool.state[1] = "ok"
  /\ pool.state[2] = "raised"
  /\ pool.state[3] = "ok"

\* C17: every blocking external call has a deadline, so that run_discovery
\* returns whether or not the tools answer: as long as it has not returned,
\* the run can take a step that waits for no tool (reach its next call, have
\* the deadline of the current call expire, or return), and it ends in no
\* other way than by returning.
C17_NeverWaitsForever == pc = "done" \/ (pc = "calls" /\ ENABLED ProgramStep)

\* C18: every command of discover_local_interface that names the interface
\* names one that is non-empty and made of characters of [a-zA-Z0-9._-]
\* only, and the function returns for such a name only.
C18_OnlyAllowedNames ==
  /\ \A k \in DOMAIN ifc.cmds :
       ifc.cmds[k].cmd # "route_default" =>
         /\ ifc.cmds[k].dev # <<>>
         /\ \A i \in DOMAIN ifc.cmds[k].dev : ifc.cmds[k].dev[i] \in Allowed
  /\ pc = "returned" =>
       /\ ifc.iface_name # <<>>
       /\ \A i \in DOMAIN ifc.iface_name : ifc.iface_name[i] \in Allowed

\* The last subnet whose topology_tree has the key ip, 0 when none has.
LastWithParent(ip) ==
  MaxOf({0} \cup {k \in DOMAIN subnets : ip \in DOMAIN subnets[k].topology_tree})

\* The L2 entries of ip in a list of entries.
L2Of(es, ip) == SelectSeq(es, LAMBDA e : e.host_ip = ip)

\* The last subnet whose l2_topology has an entry of ip, 0 when none has.
LastWithEntry(ip) ==
  MaxOf({0} \cup {k \in DOMAIN subnets : L2Of(subnets[k].l2_topology, ip) # <<>>})

\* C19: in the NetworkTopology returned, the global topology_tree has for
\* each address the parent of the last subnet that has one, and the global
\* l2_topology has for each address the entry of the last subnet that has
\* one, and no other.
C19_LaterSubnetOverwrites ==
  pc = "done" =>
    \A ip \in IPs :
      /\ ip \in DOMAIN merged_tree <=> LastWithParent(ip) # 0
      /\ ip \in DOMAIN merged_tree =>
           merged_tree[ip] = subnets[LastWithParent(ip)].topology_tree[ip]
      /\ L2Of(merged_l2, ip) =
           IF LastWithEntry(ip) = 0 THEN <<>>
           ELSE L2Of(subnets[LastWithEntry(ip)].l2_topology, ip)

\* C20: in the NetworkTopology returned, local_interface is the first
\* interface in scan order that has an address, and gateway is the gateway
\* of the subnet of that interface (None when it has none).
C20_PrimaryOfFirstSubnet ==
  pc = "done" =>
    /\ subnets # <<>>
    /\ primary_iface = subnets[1].interface
    /\ primary_gateway =
         IF subnets[1].gateway = 0 THEN NoGateway
         ELSE [subnet |-> subnets[1].interface, ip |-> subnets[1].gateway]

\* Rule k matches the strings: one of its vendor patterns occurs in the
\* vendor, whatever the case, or one of its hostname patterns occurs in the
\* lower-cased hostname.
RuleMatches(k, vendor, hostname) ==
  \/ \E j \in DOMAIN CategoryRules[k].vendor_patterns :
       Contains(LowerStr(CategoryRules[k].vendor_patterns[j]), LowerStr(vendor))
  \/ \E j \in DOMAIN CategoryRules[k].hostname_patterns :
       Contains(CategoryRules[k].hostname_patterns[j], LowerStr(hostname))

\* C21: _categorize_host returns the category of the first rule that
\* matches the vendor or the hostname, OTHER when none matches, and the
\* result depends on these two strings only.
C21_FirstMatchingRule ==
  pc = "returned_category" =>
    /\ \A k \in DOMAIN CategoryRules :
         (RuleMatches(k, arg.vendor, arg.hostname)
            /\ \A l \in 1..(k - 1) : ~RuleMatches(l, arg.vendor, arg.hostname))
           => ret.val = CategoryRules[k].category
    /\ (\A k \in DOMAIN CategoryRules : ~RuleMatches(k, arg.vendor, arg.hostname))
         => ret.val = "OTHER"
    /\ ret.val = CategorizeHost([arg EXCEPT !.is_gateway = ~@])

\* A hostname match of the first rule with a vendor match of the second.
C21_Witness ==
  /\ pc = "returned_category"
  /\ arg.vendor = <<"b">>
  /\ arg.hostname = <<"B", "c">>
  /\ ret.val = "INFRASTRUCTURE"

\* C22: the list identify_hosts returns leaves out the own address, has an
\* entry marked as gateway for the gateway address whenever one is known,
\* and is ordered with the gateway first and the other hosts by ascending
\* address.
C22_IdentifyHosts ==
  pc = "returned_hosts" =>
    /\ \A i \in DOMAIN ret.val : ret.val[i].ip # arg.local_ip
    /\ arg.gw_ip # 0 =>
         \E i \in DOMAIN ret.val : ret.val[i].ip = arg.gw_ip /\ ret.val[i].is_gateway
    /\ \A i, j \in DOMAIN ret.val :
         i < j => /\ ret.val[j].is_gateway => ret.val[i].is_gateway
                  /\ ret.val[i].is_gateway = ret.val[j].is_gateway
                       => ret.val[i].ip <= ret.val[j].ip

\* Replies out of order, the own address among them, the gateway not.
C22_Witness ==
  /\ pc = "returned_hosts"
  /\ [i \in DOMAIN arg.raw |-> arg.raw[i].ip] = <<3, LocalIP, 1>>
  /\ arg.gw_ip = 2
  /\ [i \in DOMAIN ret.val |-> ret.val[i].ip] = <<2, 1, 3>>
  /\ ret.val[1].is_gateway

\* C28: the list identify_hosts returns never has two entries with the same
\* address, nor two entries marked as gateway, whatever the replies.
C28_UniqueHostIPs ==
  pc = "returned_hosts" =>
    \A i, j \in DOMAIN ret.val :
      i # j => /\ ret.val[i].ip # ret.val[j].ip
               /\ ~(ret.val[i].is_gateway /\ ret.val[j].is_gateway)

\* C23: the parsers set completed only when the last real hop of the parsed
\* list has the target's address.
C23_CompletedAtFinalHop ==
  pc = "returned_path" =>
    (ret.val.completed =>
       /\ RealHops(ret.val.hops) # <<>>
       /\ RealHops(ret.val.hops)[Len(RealHops(ret.val.hops))].ip = arg.target)

\* C24: PATH is searched for the trace tools at most once per scanner, also
\* when the worker threads of trace_local_hosts reach _detect_trace_cmd
\* together, and what is cached is tracepath if present, else traceroute.
C24_DetectsOnce ==
  /\ pool.probes <= 1
  /\ pool.trace_cmd # "None" => pool.trace_cmd = WhichTraceCmd(pool.tools)

\* C25: _fallback_scan returns the ARP table as first read when it has
\* entries, without fping and without a ping; it sends its own pings only
\* if fping is not available (not found, or timed out), to MaxTargets hosts
\* at most with MaxWorkers
\* in flight at most; and it reads the ARP table again only when all of them
\* have finished.
C25_FallbackOrder ==
  pool.kind = "ping" =>
    /\ pc = "returned_arp_table" => pool.fping = "not_run" /\ pool.submitted = 0
    /\ pool.submitted > 0 => pool.fping \in {"not_found", "timed_out"}
    /\ Len(pool.targets) <= MaxTargets
    /\ Cardinality({i \in DOMAIN pool.targets : pool.state[i] = "running"}) <= MaxWorkers
    /\ pc \in {"consume", "consumed"} =>
         \A i \in 1..pool.submitted : pool.state[i] \in Finished

\* C26: when collect returns, the files written are those of the hosts that
\* are no gateway, have an address, and whose ssh command exited with 0 with
\* output that parses as JSON; it returns whatever happened in the tasks.
C26_FilesOfAnsweringHosts ==
  pc \in {"consume", "consumed"} /\ pool.kind = "lldp" =>
    {pool.out[k].target : k \in DOMAIN pool.out} =
      {h \in DOMAIN pool.hosts :
         /\ pool.hosts[h] = "host"
         /\ \E i \in DOMAIN pool.targets : pool.targets[i] = h /\ pool.task[i] = "json"}

\* A host that answered behind one that raised and one whose output was no
\* JSON.
C26_Witness ==
  /\ pc = "consumed"
  /\ pool.kind = "lldp"
  /\ pool.hosts = <<"host", "host", "host">>
  /\ pool.task = <<"error", "invalid_json", "json">>
  /\ pool.out = <<[target |-> 3, by |-> "caller"]>>

\* Nothing changes for the host IPs of S in this step: their parents and the
\* sets of their L2 entries are the same before and after.
FrameOf(S) ==
  \A x \in S :
    /\ x \in DOMAIN topology_tree <=> x \in DOMAIN topology_tree'
    /\ x \in DOMAIN topology_tree => topology_tree'[x] = topology_tree[x]
    /\ {l2_entries'[j] : j \in {j \in DOMAIN l2_entries' : l2_entries'[j].host_ip = x}}
         = {l2_entries[j] : j \in EntriesFor(x)}

\* C27: the LLDP merge changes the parent and the L2 entries of no host IP
\* for which LLDP has no entry, and the manual merge those of no host IP for
\* which there is no manual link.
C27_MergeFrame ==
  [][/\ pc = "lldp" /\ pc' = "manual" =>
          FrameOf(IPs \ {lldp_entries'[i].host_ip : i \in DOMAIN lldp_entries'})
     /\ pc = "manual" /\ pc' = "default" =>
          FrameOf(IPs \ {manual_topology'[i].host_ip : i \in DOMAIN manual_topology'})]_vars

\* C29: in the SubnetScan of a subnet every L2 entry has its switch as the
\* parent of its host in topology_tree.
C29_ViewsAgree ==
  SubnetDone =>
    \A j \in DOMAIN l2_entries :
      /\ l2_entries[j].host_ip \in DOMAIN topology_tree
      /\ topology_tree[l2_entries[j].host_ip] = l2_entries[j].switch_ip

\* C30: in the SubnetScan of a subnet the gateway is no key of topology_tree
\* and has no L2 entry.
C30_GatewayIsRoot ==
  SubnetDone /\ GatewayOf(hosts) # 0 =>
    /\ GatewayOf(hosts) \notin DOMAIN topology_tree
    /\ EntriesFor(GatewayOf(hosts)) = {}

====
